---- MODULE Spec2Model ----
(***************************************************************************)
(* A model of the world map preview of hoi4modutilities: the WorldMap      *)
(* session (refresh, cached snapshot, diff protocol) and the state loader's *)
(* merge step.                                                             *)
(***************************************************************************)
EXTENDS Integers, Sequences, FiniteSets, TLC

\* ------------------------------------------------------------------------
\* Bounds of the model
\* ------------------------------------------------------------------------

\* Disjoint single-index changes of one list in a diff scenario.
MaxSingles == 31

\* A run of changed entries is up to MaxSplits * messageCountLimit + 1 long.
MaxSplits == 2

\* Refreshes (calls of sendProvinceMapSummaryToWebview) one behaviour starts.
MaxRefresh == 2

\* File-change notifications one behaviour delivers to onDocumentChange.
MaxChanges == 2

\* Half quiet periods the clock of one behaviour runs through.
MaxTicks == 5

\* Calls of StatesLoader.load one behaviour makes.
MaxLoads == 2

\* Edits of the state files and of the province map one behaviour makes.
MaxEdits == 2

\* ------------------------------------------------------------------------
\* Values
\* ------------------------------------------------------------------------

\* A JavaScript undefined (a hole of a sparse array), and JSON's null.
Undefined == "undefined"

Null == "null"

\* An optional value (T | undefined) is <<>> when undefined and <<v>> otherwise.
None == <<>>

Some(v) == <<v>>

\* lodash isEqual: deep equality of two values.
IsEqual(a, b) == a = b

\* list[i] of a JavaScript array: undefined outside the array's own indices.
\* Entity arrays are indexed by id, bad records sitting at negative indices.
Get(list, i) == IF i \in DOMAIN list THEN list[i] ELSE Undefined

\* slice(list, start, end): the elements at the indices start .. end - 1.
Slice(list, start, end) == [k \in 1..(IF end > start THEN end - start ELSE 0) |-> Get(list, start + k - 1)]

\* JSON.stringify of an array: undefined elements are written as null.
JsonStringify(arr) == [k \in DOMAIN arr |-> IF arr[k] = Undefined THEN Null ELSE arr[k]]

\* ------------------------------------------------------------------------
\* WorldMap.fillMessageForItem and WorldMap.sendDifferences
\* ------------------------------------------------------------------------

changeMessagesCountLimit == 30

messageCountLimit == 300

\* A limit test that already refuses the 30th message.
TooManyMessagesAtLimit(msgs) == Len(msgs) >= changeMessagesCountLimit

\* The queue has outgrown the limit: `changeMessages.length > changeMessagesCountLimit`.
TooManyMessages(msgs) == Len(msgs) > changeMessagesCountLimit

\* A run test that lets a run grow one entry past the limit.
RunTooLongPastLimit(i, s) == i - s > messageCountLimit

\* The open run has reached the limit: `i - lastDifferenceStart >= messageCountLimit`.
RunTooLong(i, s) == i - s >= messageCountLimit

\* A ranged message that takes `end` as the last index of the range.
ItemMessageInclusiveEnd(command, list, start, end) ==
    [command |-> command, data |-> [k \in 1..(end - start + 1) |->
                                      IF Get(list, start + k - 1) = Undefined THEN Null
                                      ELSE Get(list, start + k - 1)],
     start |-> start, end |-> end + 1]

\* One ranged change message { command, data, start, end }.
ItemMessage(command, list, start, end) ==
    [command |-> command, data |-> JsonStringify(Slice(list, start, end)), start |-> start, end |-> end]

\* One wholesale change message (warnings, continents, terrains).
WholeMessage(command, value) ==
    [command |-> command, data |-> JsonStringify(value), start |-> 0, end |-> 0]

\* The body of fillMessageForItem's loop for the index i. The loop's state is
\* [ok, last, msgs]: ok = FALSE once the code has returned false, last is
\* lastDifferenceStart ({} when undefined, {s} otherwise), msgs is changeMessages.
FillStep(st, i, list, cachedList, command, listEnd) ==
    IF i = listEnd \/ IsEqual(Get(list, i), Get(cachedList, i))
    THEN IF st.last # {}
         THEN LET s == CHOOSE x \in st.last : TRUE
                  pushed == Append(st.msgs, ItemMessage(command, list, s, i))
              IN  IF TooManyMessages(pushed)
                  THEN [ok |-> FALSE, last |-> st.last, msgs |-> pushed]
                  ELSE [ok |-> TRUE, last |-> {}, msgs |-> pushed]
         ELSE st
    ELSE IF st.last = {}
         THEN [st EXCEPT !.last = {i}]
         ELSE LET s == CHOOSE x \in st.last : TRUE
              IN  IF RunTooLong(i, s)
                  THEN LET pushed == Append(st.msgs, ItemMessage(command, list, s, i))
                       IN  IF TooManyMessages(pushed)
                           THEN [ok |-> FALSE, last |-> st.last, msgs |-> pushed]
                           ELSE [ok |-> TRUE, last |-> {i}, msgs |-> pushed]
                  ELSE st

\* fillMessageForItem: the loop `for (i = listStart; i <= listEnd; i++)` run on
\* changeMessages, stopping at the first `return false`. The indices lo .. hi
\* are gone through in ascending order, one half of the range after the other.
\* The result is [ok, msgs]: ok = FALSE is the code's `return false`.
FillMessageForItem(changeMessages, list, cachedList, command, listStart, listEnd) ==
    LET RECURSIVE Loop(_, _, _)
        Loop(lo, hi, st) ==
            IF ~st.ok \/ lo > hi THEN st
            ELSE IF lo = hi THEN FillStep(st, lo, list, cachedList, command, listEnd)
            ELSE LET mid == (lo + hi) \div 2
                     left == Loop(lo, mid, st)
                 IN  Loop(mid + 1, hi, left)
        end == Loop(listStart, listEnd, [ok |-> TRUE, last |-> {}, msgs |-> changeMessages])
    IN  [ok |-> end.ok, msgs |-> end.msgs]

\* A field list that leaves badStatesCount out.
ScalarKeysWithoutBadStates ==
    {"width", "height", "provincesCount", "statesCount", "countriesCount", "badProvincesCount"}

\* The scalar fields whose change makes sendDifferences give up at once.
ScalarKeys ==
    {"width", "height", "provincesCount", "statesCount", "countriesCount",
     "badProvincesCount", "badStatesCount"}

\* A queue that starts with the terrains.
WholesaleMessagesTerrainsFirst(cachedWorldMap_, worldMap_) ==
    (IF ~IsEqual(cachedWorldMap_.terrains, worldMap_.terrains)
        THEN <<WholeMessage("terrains", worldMap_.terrains)>> ELSE <<>>)
    \o (IF ~IsEqual(cachedWorldMap_.warnings, worldMap_.warnings)
        THEN <<WholeMessage("warnings", worldMap_.warnings)>> ELSE <<>>)
    \o (IF ~IsEqual(cachedWorldMap_.continents, worldMap_.continents)
        THEN <<WholeMessage("continents", worldMap_.continents)>> ELSE <<>>)

\* The wholesale messages sendDifferences queues first.
WholesaleMessages(cachedWorldMap_, worldMap_) ==
    (IF ~IsEqual(cachedWorldMap_.warnings, worldMap_.warnings)
        THEN <<WholeMessage("warnings", worldMap_.warnings)>> ELSE <<>>)
    \o (IF ~IsEqual(cachedWorldMap_.continents, worldMap_.continents)
        THEN <<WholeMessage("continents", worldMap_.continents)>> ELSE <<>>)
    \o (IF ~IsEqual(cachedWorldMap_.terrains, worldMap_.terrains)
        THEN <<WholeMessage("terrains", worldMap_.terrains)>> ELSE <<>>)

\* A diff that gives up when nothing has changed.
SendDifferencesRefusingNoChange(cachedWorldMap_, worldMap_) ==
    IF \/ \E k \in ScalarKeys : ~IsEqual(cachedWorldMap_[k], worldMap_[k])
       \/ \A k \in {"warnings", "continents", "terrains", "provinces", "states", "countries"} :
              IsEqual(cachedWorldMap_[k], worldMap_[k])
    THEN [ok |-> FALSE, msgs |-> <<>>]
    ELSE LET p == FillMessageForItem(WholesaleMessages(cachedWorldMap_, worldMap_),
                      worldMap_.provinces, cachedWorldMap_.provinces, "provinces",
                      worldMap_.badProvincesCount, worldMap_.provincesCount)
         IN  IF ~p.ok THEN p
             ELSE LET s == FillMessageForItem(p.msgs,
                               worldMap_.states, cachedWorldMap_.states, "states",
                               worldMap_.badStatesCount, worldMap_.statesCount)
                  IN  IF ~s.ok THEN s
                      ELSE FillMessageForItem(s.msgs,
                               worldMap_.countries, cachedWorldMap_.countries, "countries",
                               0, worldMap_.countriesCount)

\* sendDifferences up to its first send: the queue of change messages, or
\* ok = FALSE where the code returns false (the caller then sends the summary).
SendDifferences(cachedWorldMap_, worldMap_) ==
    IF \E k \in ScalarKeys : ~IsEqual(cachedWorldMap_[k], worldMap_[k])
    THEN [ok |-> FALSE, msgs |-> <<>>]
    ELSE LET p == FillMessageForItem(WholesaleMessages(cachedWorldMap_, worldMap_),
                      worldMap_.provinces, cachedWorldMap_.provinces, "provinces",
                      worldMap_.badProvincesCount, worldMap_.provincesCount)
         IN  IF ~p.ok THEN p
             ELSE LET s == FillMessageForItem(p.msgs,
                               worldMap_.states, cachedWorldMap_.states, "states",
                               worldMap_.badStatesCount, worldMap_.statesCount)
                  IN  IF ~s.ok THEN s
                      ELSE FillMessageForItem(s.msgs,
                               worldMap_.countries, cachedWorldMap_.countries, "countries",
                               0, worldMap_.countriesCount)

\* The full-snapshot message: the snapshot without its bulk arrays.
SummaryMessage(worldMap_) ==
    [command |-> "provincemapsummary",
     data |-> [worldMap_ EXCEPT !.colorByPosition = Undefined,
                                !.provinces = <<>>, !.states = <<>>, !.countries = <<>>],
     start |-> 0, end |-> 0]

ProgressMessage(text) == [command |-> "progress", data |-> text, start |-> 0, end |-> 0]

ErrorMessage == [command |-> "error", data |-> "Failed to load world map", start |-> 0, end |-> 0]

\* ------------------------------------------------------------------------
\* The WorldMap session
\* ------------------------------------------------------------------------

VARIABLES
    cachedWorldMap,        \* this.cachedWorldMap: None or Some(snapshot)
    worldMapDependencies,  \* this.worldMapDependencies: None or Some(list)
    pc,                    \* per refresh: where the call is suspended
    force,                 \* per refresh: the force argument
    trigger,               \* per refresh: "loaded" (onMessage) or "change"
    oldCachedWorldMap,     \* per refresh: the local oldCachedWorldMap
    worldMap,              \* per refresh: the local worldMap, None until the load returned
    startDependencies,     \* per refresh: worldMapDependencies when it started
    changeMessages,        \* per refresh: the queued messages not yet sent
    diffResult,            \* per refresh: None, or Some of sendDifferences' queue
    outcome,               \* per refresh: how the call ended
    sent,                  \* the messages handed to webview.postMessage, in order
    nStarted,              \* refreshes started so far
    changes,               \* file-change notifications handled so far
    lastChange,            \* the last notification: its path, whether it started a refresh
    scenario               \* the file contents the loads of a diff scenario read

\* The states loader and the files it reads.
VARIABLES
    heap,                  \* the state records: heap[o] is the object with identity o
    fileContent,           \* per state file: the state definitions it holds
    fileChanged,           \* the state files modified since their loader read them
    fileCache,             \* per state file: None or Some of the file loader's cached result
    provinceMap,           \* the province map the DefaultMapLoader returns
    provinceMapChanged,    \* DefaultMapLoader.shouldReload()
    loaderResult,          \* None or Some of the StatesLoader's cached result
    returned,              \* the results load has returned to its callers, in order
    loads,                 \* calls of load so far
    edits,                 \* edits so far
    lastLoad               \* the last call of load: how it ended, what it merged

\* The debounce of onDocumentChange (debounceByInput).
VARIABLES
    clock,                 \* the time, in milliseconds
    timers,                \* the pending timers: one [path, due] per key (file path)
    events                 \* the notifications and the runs of the callback, in order

\* The loaders of the world map and their loads within one refresh.
VARIABLES
    statesLoaderSource,    \* the file the StatesLoader is built from
    ownFilesChanged,       \* the loaders whose own files changed since they were read
    loadPc                 \* per loader: where its load() is

\* The merges of the supply areas and of the strategic regions, looked at on
\* their own.
VARIABLES
    regionInput,           \* what a merge is given: upstream results and raw records
    regionOutput           \* None, or Some of what the merge gave back

\* One merge of the supply areas or of the strategic regions among the loads of
\* its upstream loaders, and the saves of the province files in between.
VARIABLES
    provinceVersion,       \* how often the province files were saved
    loadedFrom,            \* per upstream loader: the save its cached result comes from
    mergePc,               \* per merging loader: where its mergeFiles() is
    mergeHeld              \* per merging loader: its locals provinceMap and stateMap

\* The preview manager, its panels and the debounced updates of its previews.
VARIABLES
    previews,              \* this._previews: per key (uri) None or Some of the preview
    panels,                \* the webview panels: panels[p] is the panel with identity p
    pendingUpdates,        \* the trailing calls the debounced update methods hold
    updateCalls,           \* the calls of previewProvider.update, in order
    previewClock,          \* the time, in milliseconds
    textDocuments          \* vscode.workspace.textDocuments: the uris of the open documents

sessionVars ==
    <<cachedWorldMap, worldMapDependencies, pc, force, trigger, oldCachedWorldMap,
      worldMap, startDependencies, changeMessages, diffResult, outcome, sent, nStarted,
      changes, lastChange, scenario>>

loaderVars ==
    <<heap, fileContent, fileChanged, fileCache, provinceMap, provinceMapChanged,
      loaderResult, returned, loads, edits, lastLoad>>

debounceVars == <<clock, timers, events>>

loadersVars == <<statesLoaderSource, ownFilesChanged, loadPc>>

regionVars == <<regionInput, regionOutput>>

versionVars == <<provinceVersion, loadedFrom, mergePc, mergeHeld>>

previewVars == <<previews, panels, pendingUpdates, updateCalls, previewClock, textDocuments>>

vars == <<sessionVars, loaderVars, debounceVars, loadersVars, regionVars, versionVars,
          previewVars>>

\* What an operation of the session, and of the loader, leaves alone.
outsideSession ==
    <<loaderVars, debounceVars, loadersVars, regionVars, versionVars, previewVars>>

outsideLoader ==
    <<sessionVars, debounceVars, loadersVars, regionVars, versionVars, previewVars>>

\* The files of history/states, in the order the folder loader goes through them.
StateFiles == <<"history/states/1.txt", "history/states/2.txt">>

\* The loaders of the world map, upstream first.
Loaders == {"defaultMap", "states", "strategicRegions", "supplyAreas"}

\* No loader is looked at.
LoadersUnused ==
    /\ statesLoaderSource = "part_003"
    /\ ownFilesChanged = {}
    /\ loadPc = [l \in Loaders |-> "idle"]

\* No merge of supply areas or strategic regions is looked at.
RegionsUnused ==
    /\ regionInput = [kind |-> "none"]
    /\ regionOutput = None

\* The loaders whose mergeFiles awaits the province map and then the states.
Mergers == {"strategicRegions", "supplyAreas"}

\* No merge is looked at among the loads of its upstream loaders.
VersionsUnused ==
    /\ provinceVersion = 0
    /\ loadedFrom = [defaultMap |-> 0, states |-> 0]
    /\ mergePc = [l \in Mergers |-> "idle"]
    /\ mergeHeld = [l \in Mergers |-> [provinceMap |-> None, stateMap |-> None]]

\* The documents of the workspace: the keys of the previews are uri.toString().
Uris == {"file:///a.gfx", "file:///b.txt", "file:///c.md"}

\* The preview manager is not looked at: no preview, no panel.
PreviewsUnused ==
    /\ previews = [key \in Uris |-> None]
    /\ panels = <<>>
    /\ pendingUpdates = {}
    /\ updateCalls = <<>>
    /\ previewClock = 0
    /\ textDocuments = {}

\* No notification has been given to the debounce.
DebounceUnused ==
    /\ clock = 0
    /\ timers = {}
    /\ events = <<>>

\* No state file, no province: the loader of a session whose loads are given.
LoaderUnused ==
    /\ heap = <<>>
    /\ fileContent = [k \in DOMAIN StateFiles |-> <<>>]
    /\ fileChanged = {}
    /\ fileCache = [k \in DOMAIN StateFiles |-> None]
    /\ provinceMap = [width |-> 0, height |-> 0, provinces |-> <<>>]
    /\ provinceMapChanged = FALSE
    /\ loaderResult = None
    /\ returned = <<>>
    /\ loads = 0
    /\ edits = 0
    /\ lastLoad = [kind |-> "none", input |-> <<>>]

Refreshes == 1..MaxRefresh

\* A world map snapshot (WorldMapData). Entity arrays are indexed by id; the bad
\* records sit at the negative indices badXCount .. -1.
BaseMap ==
    [width |-> 4, height |-> 2,
     provincesCount |-> 3, statesCount |-> 2, countriesCount |-> 1,
     badProvincesCount |-> 0, badStatesCount |-> 0 - 1,
     warnings |-> <<"w1">>, continents |-> <<"europe">>, terrains |-> <<"plains">>,
     provinces |-> [i \in 0..2 |-> IF i = 0 THEN Undefined ELSE "p"],
     states |-> [i \in (0 - 1)..1 |-> IF i = 0 THEN Undefined ELSE "s"],
     countries |-> [i \in 0..0 |-> "c"],
     strategicRegions |-> <<"sr">>, supplyAreas |-> <<"sa">>,
     colorByPosition |-> "colors"]

\* The snapshots a load of the session model can return: the base snapshot, one
\* with a changed province, state and warning list, one with a state more, and
\* one that differs in its supply areas only.
ChangedMap ==
    [BaseMap EXCEPT !.warnings = <<"w1", "w2">>, !.provinces[2] = "p'", !.states[0 - 1] = "s'"]

GrownMap ==
    [BaseMap EXCEPT !.statesCount = 3,
                    !.states = [i \in (0 - 1)..2 |-> IF i = 0 THEN Undefined ELSE "s"]]

SessionMaps == {BaseMap, ChangedMap, GrownMap}

\* A file path and a dependency glob are sequences of segments; the code holds a
\* dependency as one string and splits it at '/'.
Split(d) == d

\* matchPathEnd(path, segments): the last segments of the path match the given
\* ones, '*' matching any one segment.
MatchPathEnd(path, segments) ==
    /\ Len(segments) <= Len(path)
    /\ \A k \in 1..Len(segments) :
          \/ segments[k] = "*"
          \/ segments[k] = path[Len(path) - Len(segments) + k]

\* The dependency list every successful load of the world map returns.
Dependencies == << <<"history", "states", "*">>, <<"map", "default.map">> >>

\* The files whose change the host reports.
Paths ==
    { <<"mod", "history", "states", "1.txt">>,
      <<"mod", "map", "default.map">>,
      <<"mod", "common", "ideas.txt">> }

Post(r, m) == [by |-> r, msg |-> m]

InitSession ==
    /\ cachedWorldMap = None
    /\ worldMapDependencies = None
    /\ pc = [r \in Refreshes |-> "idle"]
    /\ force = [r \in Refreshes |-> FALSE]
    /\ trigger = [r \in Refreshes |-> "none"]
    /\ oldCachedWorldMap = [r \in Refreshes |-> None]
    /\ worldMap = [r \in Refreshes |-> None]
    /\ startDependencies = [r \in Refreshes |-> None]
    /\ changeMessages = [r \in Refreshes |-> <<>>]
    /\ diffResult = [r \in Refreshes |-> None]
    /\ outcome = [r \in Refreshes |-> "none"]
    /\ sent = <<>>
    /\ nStarted = 0
    /\ changes = 0
    /\ lastChange = [path |-> <<>>, started |-> FALSE]

NoScenario == [kind |-> "none"]

Init ==
    /\ InitSession
    /\ VersionsUnused
    /\ PreviewsUnused
    /\ scenario = NoScenario
    /\ LoaderUnused
    /\ DebounceUnused
    /\ LoadersUnused
    /\ RegionsUnused

\* sendProvinceMapSummaryToWebview(force) up to `await worldMapLoader.load`:
\* shallowForceReload, oldCachedWorldMap = this.cachedWorldMap, the load begins.
StartRefresh(f, t) ==
    LET r == nStarted + 1
    IN  /\ nStarted < MaxRefresh
        /\ nStarted' = r
        /\ pc' = [pc EXCEPT ![r] = "loading"]
        /\ force' = [force EXCEPT ![r] = f]
        /\ trigger' = [trigger EXCEPT ![r] = t]
        /\ oldCachedWorldMap' = [oldCachedWorldMap EXCEPT ![r] = cachedWorldMap]
        /\ startDependencies' = [startDependencies EXCEPT ![r] = worldMapDependencies]
        /\ UNCHANGED <<cachedWorldMap, worldMapDependencies, worldMap, changeMessages,
                       diffResult, outcome, sent, scenario, loaderVars, versionVars, previewVars, loadersVars, regionVars>>

\* onMessage, case 'loaded': the renderer asks for a (forced or plain) refresh.
OnMessageLoaded(f) ==
    /\ StartRefresh(f, "loaded")
    /\ UNCHANGED <<changes, lastChange, debounceVars>>

\* A callback that takes every path for a dependency.
DependencyMatchesAnyPath(path) == TRUE

\* `this.worldMapDependencies.some(d => matchPathEnd(uri.fsPath, d.split('/')))`
DependencyMatches(path) ==
    \E k \in DOMAIN worldMapDependencies[1] : MatchPathEnd(path, Split(worldMapDependencies[1][k]))

\* The callback onDocumentChange debounces, run for a change of the file `path`.
DocumentChangeCallback(path) ==
    /\ changes < MaxChanges
    /\ changes' = changes + 1
    /\ IF worldMapDependencies = None
       THEN /\ lastChange' = [path |-> path, started |-> FALSE]
            /\ UNCHANGED <<cachedWorldMap, worldMapDependencies, pc, force, trigger,
                           oldCachedWorldMap, worldMap, startDependencies, changeMessages,
                           diffResult, outcome, sent, nStarted, scenario, loaderVars, versionVars, previewVars, loadersVars, regionVars>>
       ELSE IF DependencyMatches(path)
       THEN /\ lastChange' = [path |-> path, started |-> TRUE]
            /\ StartRefresh(FALSE, "change")
       ELSE /\ lastChange' = [path |-> path, started |-> FALSE]
            /\ UNCHANGED <<cachedWorldMap, worldMapDependencies, pc, force, trigger,
                           oldCachedWorldMap, worldMap, startDependencies, changeMessages,
                           diffResult, outcome, sent, nStarted, scenario, loaderVars, versionVars, previewVars, loadersVars, regionVars>>

\* onDocumentChange as the session sees it: the debounced callback runs for a
\* change of the file `path`, at a time the debounce chooses.
OnDocumentChange(path) ==
    /\ DocumentChangeCallback(path)
    /\ UNCHANGED debounceVars

\* A plain refresh that ignores the force argument.
ShouldDiffIgnoringForce(r) == oldCachedWorldMap[r] # None

\* The guard of the diff: `!force && oldCachedWorldMap`.
ShouldDiff(r) == ~force[r] /\ oldCachedWorldMap[r] # None

\* The load of refresh r returns `result`: lines 204-221 up to the first awaited
\* postMessage. The dependency list and the cached snapshot are assigned, then
\* either the diff's first change message or the summary is handed to the webview.
LoadReturns(r, result) ==
    /\ pc[r] = "loading"
    /\ worldMapDependencies' = Some(Dependencies)
    /\ worldMap' = [worldMap EXCEPT ![r] = Some(result)]
    /\ cachedWorldMap' = Some(result)
    /\ IF ShouldDiff(r)
       THEN LET d == SendDifferences(oldCachedWorldMap[r][1], result)
                comparing == Post(r, ProgressMessage("Comparing changes..."))
                applying == Post(r, ProgressMessage("Applying changes..."))
            IN  /\ diffResult' = [diffResult EXCEPT ![r] = Some(d)]
                /\ IF d.ok /\ d.msgs = <<>>
                   THEN /\ sent' = sent \o <<comparing, applying, Post(r, ProgressMessage(""))>>
                        /\ pc' = [pc EXCEPT ![r] = "done"]
                        /\ outcome' = [outcome EXCEPT ![r] = "diff"]
                        /\ UNCHANGED changeMessages
                   ELSE IF d.ok
                   THEN /\ sent' = sent \o <<comparing, applying, Post(r, Head(d.msgs))>>
                        /\ pc' = [pc EXCEPT ![r] = "sending"]
                        /\ changeMessages' = [changeMessages EXCEPT ![r] = Tail(d.msgs)]
                        /\ UNCHANGED outcome
                   ELSE /\ sent' = sent \o <<comparing, Post(r, SummaryMessage(result))>>
                        /\ pc' = [pc EXCEPT ![r] = "summary"]
                        /\ UNCHANGED <<changeMessages, outcome>>
       ELSE /\ sent' = Append(sent, Post(r, SummaryMessage(result)))
            /\ pc' = [pc EXCEPT ![r] = "summary"]
            /\ UNCHANGED <<changeMessages, diffResult, outcome>>
    /\ UNCHANGED <<force, trigger, oldCachedWorldMap, startDependencies, nStarted,
                   changes, lastChange, scenario, outsideSession>>

\* A catch block that also drops the cached snapshot.
LoadThrowsDroppingCache(r) ==
    /\ pc[r] = "loading"
    /\ sent' = Append(sent, [by |-> r, msg |-> ErrorMessage])
    /\ pc' = [pc EXCEPT ![r] = "error"]
    /\ outcome' = [outcome EXCEPT ![r] = "loadfailed"]
    /\ cachedWorldMap' = None
    /\ UNCHANGED <<worldMapDependencies, force, trigger, oldCachedWorldMap,
                   worldMap, startDependencies, changeMessages, diffResult, nStarted,
                   changes, lastChange, scenario, outsideSession>>

\* The load of refresh r throws: the catch block hands the error message over.
LoadThrows(r) ==
    /\ pc[r] = "loading"
    /\ sent' = Append(sent, Post(r, ErrorMessage))
    /\ pc' = [pc EXCEPT ![r] = "error"]
    /\ outcome' = [outcome EXCEPT ![r] = "loadfailed"]
    /\ UNCHANGED <<cachedWorldMap, worldMapDependencies, force, trigger, oldCachedWorldMap,
                   worldMap, startDependencies, changeMessages, diffResult, nStarted,
                   changes, lastChange, scenario, outsideSession>>

\* An awaited postMessage of refresh r resolves: the next queued change message
\* is sent, or the call returns.
PostResolves(r) ==
    /\ pc[r] \in {"sending", "summary", "error"}
    /\ IF pc[r] = "sending" /\ changeMessages[r] # <<>>
       THEN /\ sent' = Append(sent, Post(r, Head(changeMessages[r])))
            /\ changeMessages' = [changeMessages EXCEPT ![r] = Tail(changeMessages[r])]
            /\ UNCHANGED <<pc, outcome>>
       ELSE IF pc[r] = "sending"
       THEN /\ sent' = Append(sent, Post(r, ProgressMessage("")))
            /\ pc' = [pc EXCEPT ![r] = "done"]
            /\ outcome' = [outcome EXCEPT ![r] = "diff"]
            /\ UNCHANGED changeMessages
       ELSE /\ pc' = [pc EXCEPT ![r] = "done"]
            /\ outcome' = [outcome EXCEPT ![r] = IF pc[r] = "summary" THEN "full" ELSE outcome[r]]
            /\ UNCHANGED <<sent, changeMessages>>
    /\ UNCHANGED <<cachedWorldMap, worldMapDependencies, force, trigger, oldCachedWorldMap,
                   worldMap, startDependencies, diffResult, nStarted, changes, lastChange,
                   scenario, outsideSession>>

\* An awaited postMessage of refresh r rejects. Inside the try block the catch
\* block sends the error message; inside the catch block the rejection leaves
\* sendProvinceMapSummaryToWebview.
PostThrows(r) ==
    /\ pc[r] \in {"sending", "summary", "error"}
    /\ IF pc[r] = "error"
       THEN /\ pc' = [pc EXCEPT ![r] = "done"]
            /\ outcome' = [outcome EXCEPT ![r] = "uncaught"]
            /\ UNCHANGED sent
       ELSE /\ sent' = Append(sent, Post(r, ErrorMessage))
            /\ pc' = [pc EXCEPT ![r] = "error"]
            /\ outcome' = [outcome EXCEPT ![r] = "sendfailed"]
    /\ UNCHANGED <<cachedWorldMap, worldMapDependencies, force, trigger, oldCachedWorldMap,
                   worldMap, startDependencies, changeMessages, diffResult, nStarted,
                   changes, lastChange, scenario, outsideSession>>

\* The session with a renderer channel that takes every message.
Next ==
    \/ \E f \in BOOLEAN : OnMessageLoaded(f)
    \/ \E path \in Paths : OnDocumentChange(path)
    \/ \E r \in Refreshes, result \in SessionMaps : LoadReturns(r, result)
    \/ \E r \in Refreshes : LoadThrows(r)
    \/ \E r \in Refreshes : PostResolves(r)

Spec == Init /\ [][Next]_vars

\* ------------------------------------------------------------------------
\* Diff scenarios: a session whose loads read one of two versions of the files
\* ------------------------------------------------------------------------

\* A snapshot with the given counts and entity arrays.
MkMap(w, np, bp, provs, ns, bs, sts, nc, ctrs, whole) ==
    [width |-> w, height |-> 2,
     provincesCount |-> np, statesCount |-> ns, countriesCount |-> nc,
     badProvincesCount |-> bp, badStatesCount |-> bs,
     warnings |-> IF "warnings" \in whole THEN <<"w1", "w2">> ELSE <<"w1">>,
     continents |-> IF "continents" \in whole THEN <<"europe", "asia">> ELSE <<"europe">>,
     terrains |-> IF "terrains" \in whole THEN <<"hills">> ELSE <<"plains">>,
     provinces |-> provs, states |-> sts, countries |-> ctrs,
     strategicRegions |-> <<"sr">>, supplyAreas |-> <<"sa">>,
     colorByPosition |-> "colors"]

\* An entity array on lo .. hi - 1 whose entries at `changed` carry the new item;
\* index 0 holds no record.
Items(lo, hi, changed, item) ==
    [i \in lo..(hi - 1) |-> IF i \in changed THEN item \o "'" ELSE IF i = 0 THEN Undefined ELSE item]

\* k disjoint single-index changes: the indices 1, 3, 5, ...
Singles(k) == {2 * j - 1 : j \in 1..k}

SinglesLen == 2 * MaxSingles + 1

\* Two versions that differ in kp, ks and kc single entries of the three lists
\* and in the wholesale fields `whole`.
ThresholdScenario(kp, ks, kc, whole) ==
    [kind |-> "threshold",
     old |-> MkMap(4, SinglesLen, 0, Items(0, SinglesLen, {}, "p"), SinglesLen, 0 - 1,
                   Items(0 - 1, SinglesLen, {}, "s"), SinglesLen, Items(0, SinglesLen, {}, "c"), {}),
     new |-> MkMap(4, SinglesLen, 0, Items(0, SinglesLen, Singles(kp), "p"), SinglesLen, 0 - 1,
                   Items(0 - 1, SinglesLen, Singles(ks), "s"), SinglesLen,
                   Items(0, SinglesLen, Singles(kc), "c"), whole)]

WholeSets == SUBSET {"warnings", "continents", "terrains"}

ThresholdScenarios ==
    {ThresholdScenario(k, 0, 0, whole) :
        k \in (changeMessagesCountLimit - 3)..MaxSingles, whole \in WholeSets}
    \cup {ThresholdScenario(t[1], t[2], t[3], whole) :
            t \in {<<10, 10, 10>>, <<10, 10, 11>>, <<0, 30, 1>>, <<0, 0, MaxSingles>>,
                   <<29, 1, 1>>, <<1, 29, 0>>},
            whole \in {{}, {"warnings"}}}
    \cup {ThresholdScenario(2, 1, 1, {"warnings", "continents", "terrains"})}

\* Two versions that differ in one run of `len` consecutive states starting at
\* index a, followed by `tail` unchanged states.
RunScenario(a, len, tail) ==
    [kind |-> "run",
     old |-> MkMap(4, 2, 0, Items(0, 2, {}, "p"), a + len + tail, 0 - 2,
                   Items(0 - 2, a + len + tail, {}, "s"), 1, Items(0, 1, {}, "c"), {}),
     new |-> MkMap(4, 2, 0, Items(0, 2, {}, "p"), a + len + tail, 0 - 2,
                   Items(0 - 2, a + len + tail, a..(a + len - 1), "s"), 1, Items(0, 1, {}, "c"), {})]

RunLengths == {q * messageCountLimit + d : q \in 0..MaxSplits, d \in {0 - 1, 0, 1}} \ ((0 - 1)..0)

RunScenarios == {RunScenario(a, len, tail) : a \in {0 - 2, 1, 4}, len \in RunLengths, tail \in {0, 2}}

\* Two versions that differ in one of the scalar fields (and, with `also`, in a
\* province and the warnings as well).
ScalarScenario(key, also) ==
    LET np == IF key = "provincesCount" THEN 4 ELSE 3
        bp == IF key = "badProvincesCount" THEN 0 - 1 ELSE 0
        ns == IF key = "statesCount" THEN 4 ELSE 3
        bs == IF key = "badStatesCount" THEN 0 - 2 ELSE 0 - 1
        nc == IF key = "countriesCount" THEN 3 ELSE 2
        w == IF key = "width" THEN 5 ELSE 4
        new == MkMap(w, np, bp, Items(bp, np, IF also THEN {1} ELSE {}, "p"), ns, bs,
                     Items(bs, ns, {}, "s"), nc, Items(0, nc, {}, "c"),
                     IF also THEN {"warnings"} ELSE {})
    IN  [kind |-> "scalar",
         old |-> MkMap(4, 3, 0, Items(0, 3, {}, "p"), 3, 0 - 1, Items(0 - 1, 3, {}, "s"), 2,
                       Items(0, 2, {}, "c"), {}),
         new |-> IF key = "height" THEN [new EXCEPT !.height = 3] ELSE new]

\* The numeric fields of a world map.
WorldMapNumbers ==
    {"width", "height", "provincesCount", "statesCount", "countriesCount",
     "badProvincesCount", "badStatesCount"}

ScalarScenarios == {ScalarScenario(key, also) : key \in WorldMapNumbers, also \in BOOLEAN}

\* Two versions whose states -1, 1, 2, 3 are any of absent, unchanged, changed.
SmallScenario(sts) ==
    [kind |-> "small",
     old |-> MkMap(4, 2, 0, Items(0, 2, {}, "p"), 4, 0 - 1,
                   [i \in (0 - 1)..3 |-> IF i \in {0, 3} THEN Undefined ELSE "s"], 1,
                   Items(0, 1, {}, "c"), {}),
     new |-> MkMap(4, 2, 0, Items(0, 2, {}, "p"), 4, 0 - 1,
                   [i \in (0 - 1)..3 |-> IF i = 0 THEN Undefined ELSE sts[i]], 1,
                   Items(0, 1, {}, "c"), {})]

SmallScenarios == {SmallScenario(sts) : sts \in [{0 - 1, 1, 2, 3} -> {Undefined, "s", "s'"}]}

DiffScenarios == ThresholdScenarios \cup RunScenarios \cup ScalarScenarios \cup SmallScenarios

InitDiff ==
    /\ InitSession
    /\ VersionsUnused
    /\ PreviewsUnused
    /\ scenario \in DiffScenarios
    /\ LoaderUnused
    /\ DebounceUnused
    /\ LoadersUnused
    /\ RegionsUnused

\* The renderer asks for plain refreshes, one after the other; each load reads
\* one of the scenario's two versions of the files.
NextDiff ==
    \/ (\A r \in Refreshes : pc[r] \in {"idle", "done"}) /\ OnMessageLoaded(FALSE)
    \/ \E r \in Refreshes, result \in {scenario.old, scenario.new} : LoadReturns(r, result)
    \/ \E r \in Refreshes : PostResolves(r)

SpecDiff == InitDiff /\ [][NextDiff]_vars

\* The session with a renderer channel whose postMessage can reject.
NextSendFail ==
    \/ Next
    \/ \E r \in Refreshes : PostThrows(r)

SpecSendFail == Init /\ [][NextSendFail]_vars

\* A snapshot that differs from the base snapshot in its supply areas and
\* strategic regions only.
RegroupedMap == [BaseMap EXCEPT !.supplyAreas = <<"sa'">>, !.strategicRegions = <<"sr'">>]

\* A session that has completed a refresh before: the base snapshot is cached,
\* the dependency list is stored, the renderer holds the base snapshot.
InitCached ==
    /\ cachedWorldMap = Some(BaseMap)
    /\ VersionsUnused
    /\ PreviewsUnused
    /\ worldMapDependencies = Some(Dependencies)
    /\ pc = [r \in Refreshes |-> "idle"]
    /\ force = [r \in Refreshes |-> FALSE]
    /\ trigger = [r \in Refreshes |-> "none"]
    /\ oldCachedWorldMap = [r \in Refreshes |-> None]
    /\ worldMap = [r \in Refreshes |-> None]
    /\ startDependencies = [r \in Refreshes |-> None]
    /\ changeMessages = [r \in Refreshes |-> <<>>]
    /\ diffResult = [r \in Refreshes |-> None]
    /\ outcome = [r \in Refreshes |-> "none"]
    /\ sent = <<>>
    /\ nStarted = 0
    /\ changes = 0
    /\ lastChange = [path |-> <<>>, started |-> FALSE]
    /\ scenario = NoScenario
    /\ LoaderUnused
    /\ DebounceUnused
    /\ LoadersUnused
    /\ RegionsUnused

\* The session from there on; a load returns the base snapshot or one of its
\* changed versions.
NextCached ==
    \/ \E f \in BOOLEAN : OnMessageLoaded(f)
    \/ \E path \in Paths : OnDocumentChange(path)
    \/ \E r \in Refreshes, result \in SessionMaps \cup {RegroupedMap} : LoadReturns(r, result)
    \/ \E r \in Refreshes : LoadThrows(r)
    \/ \E r \in Refreshes : PostResolves(r)

SpecCached == InitCached /\ [][NextCached]_vars

\* ------------------------------------------------------------------------
\* onDocumentChange = debounceByInput(callback, uri => uri.fsPath, 1000,
\* { trailing: true }): one trailing debounce per key, the key being the path
\* ------------------------------------------------------------------------

\* The quiet period, in milliseconds.
wait == 1000

InitDebounce ==
    /\ InitSession
    /\ VersionsUnused
    /\ PreviewsUnused
    /\ scenario = NoScenario
    /\ LoaderUnused
    /\ LoadersUnused
    /\ RegionsUnused
    /\ clock = 0
    /\ timers = {}
    /\ events = <<>>

\* The host reports a change of the file `path`: the debounce of that path's
\* key is (re)started and will run the callback `wait` milliseconds later.
NotifyChange(path) ==
    /\ Len(SelectSeq(events, LAMBDA e : e.kind = "notify")) < MaxChanges
    /\ timers' = {t \in timers : t.path # path} \cup {[path |-> path, due |-> clock + wait]}
    /\ events' = Append(events, [kind |-> "notify", path |-> path, at |-> clock, started |-> FALSE])
    /\ UNCHANGED <<clock, sessionVars, loaderVars, versionVars, previewVars, loadersVars, regionVars>>

\* Half a quiet period passes; a timer that is due runs before time goes on.
Tick ==
    /\ clock < MaxTicks * (wait \div 2)
    /\ \A t \in timers : t.due > clock
    /\ clock' = clock + wait \div 2
    /\ UNCHANGED <<timers, events, sessionVars, loaderVars, versionVars, previewVars, loadersVars, regionVars>>

\* The timer of a key is due: the callback runs with that key's path.
TimerFires(path) ==
    /\ \E t \in timers : t.path = path /\ t.due <= clock
    /\ DocumentChangeCallback(path)
    /\ timers' = {t \in timers : t.path # path}
    /\ events' = Append(events, [kind |-> "run", path |-> path, at |-> clock,
                                 started |-> lastChange'.started])
    /\ UNCHANGED clock

NextDebounce ==
    \/ \E f \in BOOLEAN : OnMessageLoaded(f)
    \/ \E path \in Paths : NotifyChange(path)
    \/ Tick
    \/ \E path \in Paths : TimerFires(path)
    \/ \E r \in Refreshes, result \in SessionMaps : LoadReturns(r, result)
    \/ \E r \in Refreshes : PostResolves(r)

SpecDebounce == InitDebounce /\ [][NextDebounce]_vars

\* ------------------------------------------------------------------------
\* The states loader: StatesLoader, its file loaders and its merge step
\* ------------------------------------------------------------------------

\* A state definition of a state file: its id field (0 when the file gives
\* none) and the provinces it lists.
StateDefinition(id, provinces) == [id |-> id, provinces |-> provinces]

\* The contents a state file takes.
FileVersions ==
    { <<>>,
      <<StateDefinition(1, <<1>>)>>,
      <<StateDefinition(0, <<2>>)>>,
      <<StateDefinition(1, <<1, 2>>), StateDefinition(0, <<2>>)>>,
      <<StateDefinition(2, <<1, 3>>)>>,
      <<StateDefinition(1, <<3>>), StateDefinition(1, <<>>)>>,
      <<StateDefinition(10001, <<1>>)>> }

\* A province of the province map: the part of a Region the merge reads.
Province(x, y, w, h, type) ==
    [boundingBox |-> [x |-> x, y |-> y, w |-> w, h |-> h], mass |-> 1, type |-> type]

\* The province maps the DefaultMapLoader returns: provinces by id.
BaseProvinceMap ==
    [width |-> 8, height |-> 4,
     provinces |-> <<Province(0, 0, 1, 1, "land"), Province(1, 0, 1, 1, "land")>>]

ProvinceMaps ==
    { BaseProvinceMap,
      [width |-> 8, height |-> 4,
       provinces |-> <<Province(2, 1, 1, 3, "land"), Province(1, 0, 1, 1, "land")>>],
      [width |-> 8, height |-> 4,
       provinces |-> <<Province(0, 0, 1, 1, "land"), Province(6, 0, 2, 1, "sea")>>],
      [width |-> 8, height |-> 4,
       provinces |-> <<Province(0, 0, 1, 1, "land")>>] }

\* A warning: its text's key and arguments, the ids of its sources, its files.
Warning(text, source, relatedFiles, args) ==
    [text |-> text, source |-> source, relatedFiles |-> relatedFiles, args |-> args]

\* mergeBoundingBox(a, b, width): the union of two boxes on a map whose x axis
\* wraps at `width`, the narrower of the plain and the wrapped union.
MergeBoundingBox(a, b, width) ==
    LET Lo(m, n) == IF m < n THEN m ELSE n
        Hi(m, n) == IF m > n THEN m ELSE n
        Union(ax, aw, bx, bw) == [x |-> Lo(ax, bx), w |-> Hi(ax + aw, bx + bw) - Lo(ax, bx)]
        plain == Union(a.x, a.w, b.x, b.w)
        wrapped == IF a.x < b.x THEN Union(a.x + width, a.w, b.x, b.w)
                   ELSE Union(a.x, a.w, b.x + width, b.w)
        span == IF wrapped.w < plain.w THEN wrapped ELSE plain
        y == Lo(a.y, b.y)
    IN  [x |-> span.x, y |-> y, w |-> span.w, h |-> Hi(a.y + a.h, b.y + b.h) - y]

\* mergeRegions(members, width): the merged box and the summed mass of a
\* non-empty list of members (the centre of mass is left out of the model).
MergeRegions(members, width) ==
    LET RECURSIVE Box(_)
        Box(k) == IF k = 1 THEN members[1].boundingBox
                  ELSE MergeBoundingBox(Box(k - 1), members[k].boundingBox, width)
        RECURSIVE Mass(_)
        Mass(k) == IF k = 0 THEN 0 ELSE Mass(k - 1) + members[k].mass
    IN  [boundingBox |-> Box(Len(members)), mass |-> Mass(Len(members))]

\* The region of a state without a valid province.
ZeroRegion == [boundingBox |-> [x |-> 0, y |-> 0, w |-> 0, h |-> 0], mass |-> 0]

\* loadState(stateFile): the raw records of one file and the file's warnings.
\* A record without id field gets the id -1; it has no region yet.
LoadState(stateFile, data) ==
    LET Id(k) == IF data[k].id # 0 THEN data[k].id ELSE 0 - 1
        Warn(k) ==
            (IF Len(data[k].provinces) = 0
             THEN <<Warning("statenoprovinces", <<Id(k)>>, <<stateFile>>, <<Id(k)>>)>> ELSE <<>>)
            \o (IF data[k].id = 0
                THEN <<Warning("statenoid", <<Id(k)>>, <<stateFile>>, <<>>)>> ELSE <<>>)
        RECURSIVE Warnings(_)
        Warnings(k) == IF k = 0 THEN <<>> ELSE Warnings(k - 1) \o Warn(k)
    IN  [result |-> [k \in 1..Len(data) |->
                        [id |-> Id(k), file |-> stateFile, provinces |-> data[k].provinces,
                         region |-> None]],
         warnings |-> Warnings(Len(data))]

\* for (let i = lo; i < hi; i++) if (array[i]) ...: the indices of the set S
\* of filled indices, in the order the loop visits them.
Ascending(S) ==
    [n \in 1..Cardinality(S) |-> CHOOSE i \in S : Cardinality({j \in S : j < i}) = n - 1]

\* The largest state id sortStates accepts.
maxStateIdLimitPlusOne == 10000 + 1

maxStateIdLimit == 10000

\* lastNotExistStateId when the loop of sortStates comes to the filled id i:
\* the first id of the run of missing ids that ends before i.
LastNotExistStateIdForgotten(filled, i) == i - 1

LastNotExistStateId(filled, i) ==
    LET below == {j \in filled : j < i}
    IN  IF below = {} THEN 1 ELSE 1 + (CHOOSE j \in below : \A k \in below : k <= j)

\* sortStates(states, warnings) on the records `states` (object identities, in
\* input order) of the heap h. The records are renumbered IN PLACE (p.id = ...).
\* sortedStates maps an index to the record placed there; its length as a
\* JavaScript array is maxStateId + 1.
SortStates(states, h, warnings) ==
    LET ids == {h[states[k]].id : k \in DOMAIN states}
        \* const v = ...: the value v is computed once, then Op works on it
        With(v, Op(_)) == CHOOSE r \in {Op(x) : x \in {v}} : TRUE
        maxStateId == IF \E i \in ids : i > 0 THEN CHOOSE i \in ids : \A j \in ids : j <= i ELSE 0
        \* states.forEach(p => ...), st = [heap, result, badStateId, warnings]
        Place(st, p) ==
            LET noId == st.heap[p].id = 0 - 1
                id1 == IF noId THEN st.badStateId ELSE st.heap[p].id
                bad1 == IF noId THEN st.badStateId - 1 ELSE st.badStateId
                conflict == id1 \in DOMAIN st.result
                id2 == IF conflict THEN bad1 ELSE id1
                bad2 == IF conflict THEN bad1 - 1 ELSE bad1
            IN  [heap |-> [st.heap EXCEPT ![p].id = id2],
                 result |-> [i \in DOMAIN st.result \cup {id2} |-> IF i = id2 THEN p ELSE st.result[i]],
                 badStateId |-> bad2,
                 warnings |->
                    IF conflict
                    THEN Append(st.warnings,
                                Warning("stateidconflict", <<bad1>>,
                                        <<st.heap[p].file, st.heap[st.result[id1]].file>>, <<id1>>))
                    ELSE st.warnings]
        RECURSIVE ForEach(_)
        ForEach(k) ==
            IF k = 0 THEN [heap |-> h, result |-> <<>>, badStateId |-> 0 - 1, warnings |-> warnings]
            ELSE With(ForEach(k - 1), LAMBDA st : Place(st, states[k]))
        \* for (i = 1; i <= maxStateId; i++): one warning at the end of each gap
        \* (lastNotExistStateId is the id after the last filled one below i)
        GapWarning(filled, i) ==
            With(LastNotExistStateId(filled, i), LAMBDA lastNotExistStateId :
                Warning("statenotexist", <<i>>, <<>>,
                        IF lastNotExistStateId = i - 1 THEN <<i - 1>>
                        ELSE <<lastNotExistStateId, i - 1>>))
        Gaps(filled) ==
            With(Ascending({i \in filled : i >= 2 /\ (i - 1) \notin filled}), LAMBDA gapEnds :
                [n \in DOMAIN gapEnds |-> GapWarning(filled, gapEnds[n])])
        Return(placed) ==
            [throws |-> FALSE, heap |-> placed.heap, sortedStates |-> placed.result,
             length |-> maxStateId + 1, badStateId |-> placed.badStateId,
             warnings |-> placed.warnings \o
                          With({i \in DOMAIN placed.result : 1 <= i /\ i <= maxStateId}, Gaps)]
    IN  IF maxStateId > maxStateIdLimit
        THEN [throws |-> TRUE, heap |-> h, sortedStates |-> <<>>, length |-> 0,
              badStateId |-> 0 - 1, warnings |-> warnings]
        ELSE With(ForEach(Len(states)), Return)

\* calculateBoundingBox(noBoundingBoxState, provinces, width, height, warnings)
\* for the record o of the heap h: Object.assign writes the region INTO the
\* record, which is also the state the function returns.
CalculateBoundingBox(h, o, map, warnings) ==
    LET state == h[o]
        Exists(p) == p \in DOMAIN map.provinces
        missing == SelectSeq(state.provinces, LAMBDA p : ~Exists(p))
        valid == SelectSeq(state.provinces, Exists)
        provincesInState == [k \in 1..Len(valid) |-> map.provinces[valid[k]]]
        w1 == warnings \o [k \in 1..Len(missing) |->
                              Warning("stateprovincenotexist", <<state.id>>, <<state.file>>,
                                      <<missing[k], state.id>>)]
    IN  IF Len(provincesInState) > 0
        THEN LET region == MergeRegions(provincesInState, map.width)
                 box == region.boundingBox
             IN  [heap |-> [h EXCEPT ![o].region = Some(region)],
                  warnings |->
                     IF 2 * box.w > map.width \/ 2 * box.h > map.height
                     THEN Append(w1, Warning("statetoolarge", <<state.id>>, <<state.file>>,
                                             <<state.id, box.w, box.h>>))
                     ELSE w1]
        ELSE [heap |-> [h EXCEPT ![o].region = Some(ZeroRegion)],
              warnings |->
                 IF Len(state.provinces) > 0
                 THEN Append(w1, Warning("statenovalidprovinces", <<state.id>>, <<state.file>>,
                                         <<state.id>>))
                 ELSE w1]

\* A reverse map in which the last claimant of a child replaces the one before.
ClaimOverwriting(childToParent, child, parent) ==
    [q \in DOMAIN childToParent \cup {child} |-> IF q = child THEN parent ELSE childToParent[q]]

\* if (provinceToState[p] !== undefined) { ... } else { provinceToState[p] = state.id; }
\* (and the same lines for stateToSupplyArea, provinceToStrategicRegion): the
\* reverse map after `parent` claimed `child`; an entry that is there stays.
Claim(childToParent, child, parent) ==
    IF child \in DOMAIN childToParent THEN childToParent
    ELSE [q \in DOMAIN childToParent \cup {child} |-> IF q = child THEN parent ELSE childToParent[q]]

\* validateProvinceInState(provinces, states, badStatesCount, warnings): the
\* warnings it adds. It goes through the states from badStatesCount on and
\* through each state's provinces, provinceToState keeping the first claimant.
ValidateProvinceInState(map, states, length, badStatesCount, h, warnings) ==
    LET Exists(p) == p \in DOMAIN map.provinces
        \* const v = ...: the value v is computed once, then Op works on it
        With(v, Op(_)) == CHOOSE r \in {Op(x) : x \in {v}} : TRUE
        Sea(p, ws, state) ==
            IF Exists(p) /\ map.provinces[p].type = "sea"
            THEN Append(ws, Warning("statehassea", <<state.id, p>>, <<state.file>>, <<p>>))
            ELSE ws
        \* state.provinces.forEach(p => ...), st = [provinceToState, warnings]
        Visit(st, i, p) ==
            LET state == h[states[i]]
                map2 == st.provinceToState
            IN  IF p \in DOMAIN map2
                THEN IF ~Exists(p) THEN st
                     ELSE [provinceToState |-> Claim(map2, p, state.id),
                           warnings |->
                              Sea(p, Append(st.warnings,
                                            Warning("provinceinmultistates", <<state.id, map2[p], p>>,
                                                    <<state.file, h[states[map2[p]]].file>>,
                                                    <<p, map2[p], state.id>>)), state)]
                ELSE [provinceToState |-> Claim(map2, p, state.id),
                      warnings |-> Sea(p, st.warnings, state)]
        RECURSIVE ForProvinces(_, _, _)
        ForProvinces(st, i, k) ==
            IF k > Len(h[states[i]].provinces) THEN st
            ELSE With(Visit(st, i, h[states[i]].provinces[k]),
                      LAMBDA st2 : ForProvinces(st2, i, k + 1))
        \* for (let i = badStatesCount; i < states.length; i++) if (states[i]) ...
        RECURSIVE ForStates(_, _)
        ForStates(visited, n) ==
            IF n = 0 THEN [provinceToState |-> <<>>, warnings |-> warnings]
            ELSE With(ForStates(visited, n - 1), LAMBDA st : ForProvinces(st, visited[n], 1))
    IN  With(Ascending({i \in DOMAIN states : badStatesCount <= i /\ i < length}),
             LAMBDA visited : ForStates(visited, Len(visited)).warnings)

\* StatesLoader.mergeFiles(fileResults) on the heap h with the province map the
\* DefaultMapLoader returned: sortStates, calculateBoundingBox for the records
\* from badStateId + 1 on, validateProvinceInState. fileResults are the file
\* loaders' results, [result |-> the records' identities, warnings |-> ...].
MergeFiles(h, fileResults, map) ==
    LET RECURSIVE Concat(_, _)
        Concat(k, field) == IF k = 0 THEN <<>> ELSE Concat(k - 1, field) \o fileResults[k][field]
        \* const v = ...: the value v is computed once, then Op works on it
        With(v, Op(_)) == CHOOSE r \in {Op(x) : x \in {v}} : TRUE
        \* for (let i = badStateId + 1; i < sortedStates.length; i++) if (sortedStates[i]) ...
        RECURSIVE Fill(_, _, _)
        Fill(sort, visited, n) ==
            IF n = 0 THEN [heap |-> sort.heap, warnings |-> sort.warnings]
            ELSE With(Fill(sort, visited, n - 1), LAMBDA st :
                     CalculateBoundingBox(st.heap, sort.sortedStates[visited[n]], map, st.warnings))
        Return(sort, visited, filledStates, filled) ==
            [throws |-> FALSE, heap |-> filled.heap,
             value |-> Some([result |-> [states |-> filledStates, length |-> sort.length,
                                          badStatesCount |-> sort.badStateId + 1],
                             dependencies |-> <<"history/states/*">>,
                             warnings |-> ValidateProvinceInState(map, filledStates, sort.length,
                                                                  sort.badStateId + 1, filled.heap,
                                                                  filled.warnings)])]
        Merge(sort) ==
            IF sort.throws
            THEN [throws |-> TRUE, heap |-> h, value |-> None]
            ELSE With(Ascending({i \in DOMAIN sort.sortedStates :
                                    sort.badStateId + 1 <= i /\ i < sort.length}),
                      LAMBDA visited :
                          With([i \in {visited[n] : n \in DOMAIN visited} |-> sort.sortedStates[i]],
                               LAMBDA filledStates :
                                   With(Fill(sort, visited, Len(visited)),
                                        LAMBDA filled : Return(sort, visited, filledStates, filled))))
    IN  With(SortStates(Concat(Len(fileResults), "result"), h, Concat(Len(fileResults), "warnings")),
             Merge)

\* The session's variables at rest: the loader is looked at on its own.
SessionUnused ==
    /\ InitSession
    /\ scenario = NoScenario
    /\ DebounceUnused

InitStates ==
    /\ SessionUnused
    /\ VersionsUnused
    /\ PreviewsUnused
    /\ LoadersUnused
    /\ RegionsUnused
    /\ heap = <<>>
    /\ fileContent \in [DOMAIN StateFiles -> FileVersions]
    /\ fileChanged = {}
    /\ fileCache = [k \in DOMAIN StateFiles |-> None]
    /\ provinceMap = BaseProvinceMap
    /\ provinceMapChanged = FALSE
    /\ loaderResult = None
    /\ returned = <<>>
    /\ loads = 0
    /\ edits = 0
    /\ lastLoad = [kind |-> "none", input |-> <<>>]

\* The user saves the state file k with another content.
ChangeStateFile(k, data) ==
    /\ edits < MaxEdits
    /\ fileContent[k] # data
    /\ edits' = edits + 1
    /\ fileContent' = [fileContent EXCEPT ![k] = data]
    /\ fileChanged' = fileChanged \cup {k}
    /\ UNCHANGED <<heap, fileCache, provinceMap, provinceMapChanged, loaderResult, returned, loads,
                   lastLoad>>
    /\ UNCHANGED outsideLoader

\* The user saves another province map.
ChangeProvinceMap(map) ==
    /\ edits < MaxEdits
    /\ provinceMap # map
    /\ edits' = edits + 1
    /\ provinceMap' = map
    /\ provinceMapChanged' = TRUE
    /\ UNCHANGED <<heap, fileContent, fileChanged, fileCache, loaderResult, returned, loads,
                   lastLoad>>
    /\ UNCHANGED outsideLoader

\* StatesLoader.shouldReload(): a state file changed, or the province map did.
ShouldReload == fileChanged # {} \/ provinceMapChanged

\* StatesLoader.load(f). Without force and without anything to reload the
\* cached result is returned. Otherwise the file loaders of the changed files
\* (of all files, when forced) read their files into new records, the others
\* give their cached records, and mergeFiles merges them.
StatesLoad(f) ==
    /\ loads < MaxLoads
    /\ loads' = loads + 1
    /\ UNCHANGED <<fileContent, provinceMap, edits>>
    /\ UNCHANGED outsideLoader
    /\ IF ~f /\ loaderResult # None /\ ~ShouldReload
       THEN /\ returned' = Append(returned, loaderResult[1])
            /\ lastLoad' = [kind |-> "cached", input |-> <<>>]
            /\ UNCHANGED <<heap, fileChanged, fileCache, provinceMapChanged, loaderResult>>
       ELSE LET Reads(k) == f \/ k \in fileChanged \/ fileCache[k] = None
                RECURSIVE LoadFiles(_)
                LoadFiles(k) ==
                    IF k = 0 THEN [heap |-> heap, cache |-> fileCache]
                    ELSE LET st == LoadFiles(k - 1)
                             file == LoadState(StateFiles[k], fileContent[k])
                         IN  IF Reads(k)
                             THEN [heap |-> st.heap \o file.result,
                                   cache |-> [st.cache EXCEPT ![k] =
                                                Some([result |-> [j \in 1..Len(file.result) |-> Len(st.heap) + j],
                                                      warnings |-> file.warnings])]]
                             ELSE st
                loaded == LoadFiles(Len(StateFiles))
                merged == MergeFiles(loaded.heap, [k \in DOMAIN StateFiles |-> loaded.cache[k][1]],
                                     provinceMap)
                \* the records mergeFiles is given, in input order: the record, the
                \* id it holds at that time, the id field of its definition, its file
                RECURSIVE Input(_)
                Input(k) ==
                    IF k = 0 THEN <<>>
                    ELSE Input(k - 1) \o
                         [j \in 1..Len(loaded.cache[k][1].result) |->
                             [o |-> loaded.cache[k][1].result[j],
                              id |-> loaded.heap[loaded.cache[k][1].result[j]].id,
                              raw |-> fileContent[k][j].id,
                              file |-> StateFiles[k]]]
            IN  /\ lastLoad' = [kind |-> IF merged.throws THEN "threw" ELSE "merged",
                                input |-> Input(Len(StateFiles))]
                /\ fileCache' = loaded.cache
                /\ fileChanged' = {}
                /\ provinceMapChanged' = FALSE
                /\ heap' = merged.heap
                /\ IF merged.throws
                   THEN UNCHANGED <<loaderResult, returned>>
                   ELSE /\ loaderResult' = merged.value
                        /\ returned' = Append(returned, merged.value[1])

NextStates ==
    \/ \E k \in DOMAIN StateFiles, data \in FileVersions : ChangeStateFile(k, data)
    \/ \E map \in ProvinceMaps : ChangeProvinceMap(map)
    \/ \E f \in BOOLEAN : StatesLoad(f)

SpecStates == InitStates /\ [][NextStates]_vars

\* The contents of history/states/1.txt the id reconciliation is looked at with.
SortVersions ==
    { <<StateDefinition(1, <<1>>), StateDefinition(2, <<2>>), StateDefinition(5, <<1>>)>>,
      <<StateDefinition(5, <<1>>)>>,
      <<StateDefinition(2, <<1>>)>>,
      <<StateDefinition(1, <<1>>), StateDefinition(3, <<2>>), StateDefinition(6, <<>>)>>,
      <<StateDefinition(maxStateIdLimit, <<1>>)>>,
      <<StateDefinition(maxStateIdLimit + 1, <<1>>)>>,
      <<StateDefinition(1, <<1>>), StateDefinition(maxStateIdLimit + 1, <<2>>),
        StateDefinition(1, <<2>>)>>,
      <<StateDefinition(1, <<1>>), StateDefinition(1, <<2>>), StateDefinition(1, <<>>)>>,
      <<StateDefinition(0, <<1>>), StateDefinition(0, <<2>>)>>,
      <<StateDefinition(0 - 2, <<1>>)>>,
      <<StateDefinition(0 - 2, <<1>>), StateDefinition(0, <<2>>), StateDefinition(3, <<2>>)>> }

InitSort ==
    /\ SessionUnused
    /\ VersionsUnused
    /\ PreviewsUnused
    /\ LoadersUnused
    /\ RegionsUnused
    /\ heap = <<>>
    /\ fileContent \in {c \in [DOMAIN StateFiles -> SortVersions \cup FileVersions] :
                            c[1] \in SortVersions /\ c[2] \in FileVersions}
    /\ fileChanged = {}
    /\ fileCache = [k \in DOMAIN StateFiles |-> None]
    /\ provinceMap = BaseProvinceMap
    /\ provinceMapChanged = FALSE
    /\ loaderResult = None
    /\ returned = <<>>
    /\ loads = 0
    /\ edits = 0
    /\ lastLoad = [kind |-> "none", input |-> <<>>]

\* The state files stay as they are; the province map changes, which makes
\* the loader merge the cached records of its files again.
NextSort ==
    \/ \E map \in ProvinceMaps : ChangeProvinceMap(map)
    \/ \E f \in BOOLEAN : StatesLoad(f)

SpecSort == InitSort /\ [][NextSort]_vars

\* ------------------------------------------------------------------------
\* The loaders of the world map: shouldReload() and the order of their loads
\* ------------------------------------------------------------------------

\* FolderLoader.shouldReload() (super.shouldReload(), super.shouldReloadImpl()):
\* a file of the loader's own folder changed.
FolderShouldReload(l) == l \in ownFilesChanged

\* DefaultMapLoader.shouldReload(): a file of the province map changed.
DefaultMapShouldReload == "defaultMap" \in ownFilesChanged

\* StatesLoader.shouldReload(): part_003 overrides it, the class of states.ts
\* has no override and inherits the folder loader's.
StatesShouldReload ==
    IF statesLoaderSource = "part_003"
    THEN FolderShouldReload("states") \/ DefaultMapShouldReload
    ELSE FolderShouldReload("states")

StrategicRegionsShouldReload ==
    FolderShouldReload("strategicRegions") \/ DefaultMapShouldReload \/ StatesShouldReload

SupplyAreasShouldReload ==
    FolderShouldReload("supplyAreas") \/ DefaultMapShouldReload \/ StatesShouldReload

InitLoaders ==
    /\ SessionUnused
    /\ VersionsUnused
    /\ PreviewsUnused
    /\ LoaderUnused
    /\ statesLoaderSource \in {"states.ts", "part_003"}
    /\ ownFilesChanged = {}
    /\ loadPc = [l \in Loaders |-> "idle"]
    /\ RegionsUnused

\* The user saves a file of the loader l.
ChangeFilesOf(l) ==
    /\ l \notin ownFilesChanged
    /\ ownFilesChanged' = ownFilesChanged \cup {l}
    /\ UNCHANGED <<statesLoaderSource, loadPc, sessionVars, loaderVars, versionVars, previewVars, debounceVars, regionVars>>

\* load() of the loader l is called and has to load: the province map is read,
\* a folder loader lets its file loaders read their files.
Begin(pcs, l) ==
    IF pcs[l] # "idle" THEN pcs
    ELSE [pcs EXCEPT ![l] = IF l = "defaultMap" THEN "loading" ELSE "files"]

BeginLoad(l) ==
    /\ loadPc[l] = "idle"
    /\ loadPc' = Begin(loadPc, l)
    /\ UNCHANGED <<statesLoaderSource, ownFilesChanged, sessionVars, loaderVars, versionVars, previewVars, debounceVars, regionVars>>

\* The load of the province map completes.
DefaultMapLoaded ==
    /\ loadPc["defaultMap"] = "loading"
    /\ loadPc' = [loadPc EXCEPT !["defaultMap"] = "done"]
    /\ ownFilesChanged' = ownFilesChanged \ {"defaultMap"}
    /\ UNCHANGED <<statesLoaderSource, sessionVars, loaderVars, versionVars, previewVars, debounceVars, regionVars>>

\* The files of the folder loader l are read: mergeFiles is called and comes
\* to its first statement, await this.defaultMapLoader.load(false).
FilesLoaded(l) ==
    /\ l # "defaultMap"
    /\ loadPc[l] = "files"
    /\ loadPc' = Begin([loadPc EXCEPT ![l] = "awaitProvinceMap"], "defaultMap")
    /\ UNCHANGED <<statesLoaderSource, ownFilesChanged, sessionVars, loaderVars, versionVars, previewVars, debounceVars, regionVars>>

\* The promise of upstream.load(false) resolves once that load has completed.
ResolvedOnceStarted(pcs, upstream) == pcs[upstream] # "idle"

Resolved(pcs, upstream) == pcs[upstream] = "done"

\* await this.defaultMapLoader.load(false) returns. The StatesLoader goes on
\* to merge; the other two come to await this.statesLoader.load(false).
ProvinceMapAwaited(l) ==
    /\ loadPc[l] = "awaitProvinceMap"
    /\ Resolved(loadPc, "defaultMap")
    /\ loadPc' = IF l = "states" THEN [loadPc EXCEPT ![l] = "merging"]
                 ELSE Begin([loadPc EXCEPT ![l] = "awaitStateMap"], "states")
    /\ UNCHANGED <<statesLoaderSource, ownFilesChanged, sessionVars, loaderVars, versionVars, previewVars, debounceVars, regionVars>>

\* await this.statesLoader.load(false) returns: the loader goes on to merge.
StateMapAwaited(l) ==
    /\ loadPc[l] = "awaitStateMap"
    /\ Resolved(loadPc, "states")
    /\ loadPc' = [loadPc EXCEPT ![l] = "merging"]
    /\ UNCHANGED <<statesLoaderSource, ownFilesChanged, sessionVars, loaderVars, versionVars, previewVars, debounceVars, regionVars>>

\* The rest of mergeFiles runs and load() of the loader l completes.
Merged(l) ==
    /\ loadPc[l] = "merging"
    /\ loadPc' = [loadPc EXCEPT ![l] = "done"]
    /\ ownFilesChanged' = ownFilesChanged \ {l}
    /\ UNCHANGED <<statesLoaderSource, sessionVars, loaderVars, versionVars, previewVars, debounceVars, regionVars>>

\* The refresh is over, no load is under way: the next refresh begins.
NextRefresh ==
    /\ \A l \in Loaders : loadPc[l] \in {"idle", "done"}
    /\ \E l \in Loaders : loadPc[l] = "done"
    /\ loadPc' = [l \in Loaders |-> "idle"]
    /\ UNCHANGED <<statesLoaderSource, ownFilesChanged, sessionVars, loaderVars, versionVars, previewVars, debounceVars, regionVars>>

NextLoaders ==
    \/ \E l \in Loaders : ChangeFilesOf(l)
    \/ \E l \in Loaders : BeginLoad(l)
    \/ DefaultMapLoaded
    \/ \E l \in Loaders : FilesLoaded(l)
    \/ \E l \in Loaders : ProvinceMapAwaited(l)
    \/ \E l \in Loaders : StateMapAwaited(l)
    \/ \E l \in Loaders : Merged(l)
    \/ NextRefresh

SpecLoaders == InitLoaders /\ [][NextLoaders]_vars

\* ------------------------------------------------------------------------
\* mergeFiles of the supply areas and of the strategic regions: its two
\* awaited upstream loads, and the saves of the files in between
\* ------------------------------------------------------------------------

\* How often the province files are saved.
MaxSaves == 2

\* Both upstream loaders hold the result of an earlier refresh, read from
\* the province files as they were then.
InitMerge ==
    /\ SessionUnused
    /\ LoaderUnused
    /\ RegionsUnused
    /\ PreviewsUnused
    /\ statesLoaderSource \in {"states.ts", "part_003"}
    /\ ownFilesChanged = {}
    /\ loadPc = [l \in Loaders |-> "idle"]
    /\ provinceVersion = 0
    /\ loadedFrom = [defaultMap |-> 0, states |-> 0]
    /\ mergePc = [l \in Mergers |-> "idle"]
    /\ mergeHeld = [l \in Mergers |-> [provinceMap |-> None, stateMap |-> None]]

\* The user saves the province files, or a file of history/states.
SaveFilesOf(u) ==
    /\ u \in {"defaultMap", "states"}
    /\ IF u = "defaultMap"
       THEN /\ provinceVersion < MaxSaves
            /\ provinceVersion' = provinceVersion + 1
       ELSE /\ u \notin ownFilesChanged
            /\ UNCHANGED provinceVersion
    /\ ownFilesChanged' = ownFilesChanged \cup {u}
    /\ UNCHANGED <<statesLoaderSource, loadPc, loadedFrom, mergePc, mergeHeld>>
    /\ UNCHANGED <<sessionVars, loaderVars, debounceVars, regionVars, previewVars>>

\* defaultMapLoader.load(false) on the caches c: the cached result is given
\* back unless shouldReload() holds, then the files are read as they are now.
LoadDefaultMap(c) ==
    IF "defaultMap" \in c.changed
    THEN [changed |-> c.changed \ {"defaultMap"},
          loadedFrom |-> [c.loadedFrom EXCEPT !.defaultMap = provinceVersion]]
    ELSE c

\* statesLoader.load(false) now: the cached result is given back unless
\* shouldReload() holds; then mergeFiles of the StatesLoader runs, which
\* takes its provinces from defaultMapLoader.load(false).
LoadStates ==
    LET c == [changed |-> ownFilesChanged, loadedFrom |-> loadedFrom]
        m == LoadDefaultMap(c)
    IN IF StatesShouldReload
       THEN [changed |-> m.changed \ {"states"},
             loadedFrom |-> [m.loadedFrom EXCEPT !.states = m.loadedFrom.defaultMap]]
       ELSE c

\* mergeFiles of the loader l is called with the records of its files.
MergeFilesCalled(l) ==
    /\ mergePc[l] = "idle"
    /\ mergePc' = [mergePc EXCEPT ![l] = "awaitProvinceMap"]
    /\ UNCHANGED <<provinceVersion, loadedFrom, mergeHeld, loadersVars>>
    /\ UNCHANGED <<sessionVars, loaderVars, debounceVars, regionVars, previewVars>>

\* const provinceMap = (await this.defaultMapLoader.load(false)).result
ProvinceMapLoaded(l) ==
    /\ mergePc[l] = "awaitProvinceMap"
    /\ LET m == LoadDefaultMap([changed |-> ownFilesChanged, loadedFrom |-> loadedFrom])
       IN /\ ownFilesChanged' = m.changed
          /\ loadedFrom' = m.loadedFrom
          /\ mergeHeld' = [mergeHeld EXCEPT ![l].provinceMap = Some(m.loadedFrom.defaultMap)]
    /\ mergePc' = [mergePc EXCEPT ![l] = "awaitStateMap"]
    /\ UNCHANGED <<provinceVersion, statesLoaderSource, loadPc>>
    /\ UNCHANGED <<sessionVars, loaderVars, debounceVars, regionVars, previewVars>>

\* const stateMap = (await this.statesLoader.load(false)).result
StateMapLoaded(l) ==
    /\ mergePc[l] = "awaitStateMap"
    /\ LET m == LoadStates
       IN /\ ownFilesChanged' = m.changed
          /\ loadedFrom' = m.loadedFrom
          /\ mergeHeld' = [mergeHeld EXCEPT ![l].stateMap = Some(m.loadedFrom.states)]
    /\ mergePc' = [mergePc EXCEPT ![l] = "merging"]
    /\ UNCHANGED <<provinceVersion, statesLoaderSource, loadPc>>
    /\ UNCHANGED <<sessionVars, loaderVars, debounceVars, regionVars, previewVars>>

\* The rest of mergeFiles runs on provinceMap and stateMap, and returns.
MergeFilesReturns(l) ==
    /\ mergePc[l] = "merging"
    /\ mergePc' = [mergePc EXCEPT ![l] = "idle"]
    /\ mergeHeld' = [mergeHeld EXCEPT ![l] = [provinceMap |-> None, stateMap |-> None]]
    /\ UNCHANGED <<provinceVersion, loadedFrom, loadersVars>>
    /\ UNCHANGED <<sessionVars, loaderVars, debounceVars, regionVars, previewVars>>

NextMerge ==
    \/ \E u \in {"defaultMap", "states"} : SaveFilesOf(u)
    \/ \E l \in Mergers : MergeFilesCalled(l)
    \/ \E l \in Mergers : ProvinceMapLoaded(l)
    \/ \E l \in Mergers : StateMapLoaded(l)
    \/ \E l \in Mergers : MergeFilesReturns(l)

SpecMerge == InitMerge /\ [][NextMerge]_vars

\* ------------------------------------------------------------------------
\* The preview manager: its registry of previews, the panels and the
\* debounced update of each preview
\* ------------------------------------------------------------------------

\* The panels one behaviour creates or restores.
MaxPanels == 2

\* Half debounce periods the clock of one behaviour runs through.
MaxPreviewTicks == 3

\* The wait of a preview's debounced update method, in milliseconds.
updateWait == 1000

\* findPreviewProvider(document): the first provider whose condition takes
\* the document, or null.
FindPreviewProvider(uri) ==
    IF uri = "file:///a.gfx" THEN Some("gfx")
    ELSE IF uri = "file:///b.txt" THEN Some("focustree")
    ELSE None

\* A panel the host has just created or restored: not disposed, no listener
\* of the manager on its onDidDispose, nothing shown in it.
NewPanel(restoring) ==
    [disposed |-> FALSE, onDidDispose |-> None, shown |-> FALSE, revealed |-> FALSE,
     restoring |-> restoring]

InitPreviews ==
    /\ SessionUnused
    /\ LoaderUnused
    /\ LoadersUnused
    /\ RegionsUnused
    /\ VersionsUnused
    /\ previews = [key \in Uris |-> None]
    /\ panels = <<>>
    /\ pendingUpdates = {}
    /\ updateCalls = <<>>
    /\ previewClock = 0
    /\ textDocuments = {}

\* panel.dispose(), or the user closing the panel: the panel is disposed and
\* its onDidDispose listeners run once. The manager's listener deletes the
\* preview its key has in the registry.
Dispose(st, p) ==
    IF st.panels[p].disposed THEN st
    ELSE LET key == st.panels[p].onDidDispose
         IN [panels |-> [st.panels EXCEPT ![p].disposed = TRUE],
             previews |-> IF key # None /\ st.previews[key[1]] # None
                          THEN [st.previews EXCEPT ![key[1]] = None]
                          ELSE st.previews]

\* showPreviewImpl(uri, panel) on the registry and panels st, the open
\* documents being docs; panel is None (undefined) or Some of a panel.
\* reveal() of a disposed panel throws: the caller deserializeWebviewPanel
\* catches it and disposes the panel it passed. A listener put on the
\* onDidDispose of a panel that is disposed already never runs.
ShowPreviewImpl(st, docs, uri, panel) ==
    LET passedDisposed == IF panel = None THEN st ELSE Dispose(st, panel[1])
    IN IF uri \notin docs THEN passedDisposed
       ELSE IF st.previews[uri] # None
       THEN LET q == st.previews[uri][1].panel
                revealed == IF st.panels[q].disposed THEN st
                            ELSE [st EXCEPT !.panels[q].revealed = TRUE]
            IN IF panel = None THEN revealed ELSE Dispose(revealed, panel[1])
       ELSE IF FindPreviewProvider(uri) = None THEN passedDisposed
       ELSE LET created == IF panel = None THEN Append(st.panels, NewPanel(None))
                           ELSE st.panels
                p == IF panel = None THEN Len(created) ELSE panel[1]
            IN [panels |-> [created EXCEPT ![p].onDidDispose = Some(uri), ![p].shown = TRUE],
                previews |-> [st.previews EXCEPT ![uri] =
                                 Some([panel |-> p, uri |-> uri,
                                       previewProvider |-> FindPreviewProvider(uri)[1]])]]

\* The user opens a document.
OpenTextDocument(uri) ==
    /\ uri \notin textDocuments
    /\ textDocuments' = textDocuments \cup {uri}
    /\ UNCHANGED <<previews, panels, pendingUpdates, updateCalls, previewClock>>
    /\ UNCHANGED <<sessionVars, loaderVars, debounceVars, loadersVars, regionVars, versionVars>>

\* showPreview(uri): the command of the editor's preview button.
ShowPreview(uri) ==
    /\ LET st == ShowPreviewImpl([panels |-> panels, previews |-> previews], textDocuments,
                                 uri, None)
       IN /\ Len(st.panels) <= MaxPanels
          /\ panels' = st.panels
          /\ previews' = st.previews
    /\ UNCHANGED <<textDocuments, pendingUpdates, updateCalls, previewClock>>
    /\ UNCHANGED <<sessionVars, loaderVars, debounceVars, loadersVars, regionVars, versionVars>>

\* deserializeWebviewPanel(panel, state) up to its first await: the host
\* restores a panel; without a uri in its state the panel is disposed.
DeserializeWebviewPanel(uriStr) ==
    /\ Len(panels) < MaxPanels
    /\ panels' = Append(panels, IF uriStr = None
                                THEN [NewPanel(None) EXCEPT !.disposed = TRUE]
                                ELSE NewPanel(uriStr))
    /\ UNCHANGED <<previews, textDocuments, pendingUpdates, updateCalls, previewClock>>
    /\ UNCHANGED <<sessionVars, loaderVars, debounceVars, loadersVars, regionVars, versionVars>>

\* await vscode.workspace.openTextDocument(uri) returns for the restored
\* panel p, with the document open (ok) or by throwing; then
\* showPreviewImpl(uri, panel) runs, or the catch disposes the panel.
OpenTextDocumentReturns(p, ok) ==
    /\ p \in DOMAIN panels
    /\ panels[p].restoring # None
    /\ LET uri == panels[p].restoring[1]
           docs == IF ok THEN textDocuments \cup {uri} ELSE textDocuments
           resumed == [panels |-> [panels EXCEPT ![p].restoring = None], previews |-> previews]
           st == IF ok THEN ShowPreviewImpl(resumed, docs, uri, Some(p))
                 ELSE Dispose(resumed, p)
       IN /\ textDocuments' = docs
          /\ panels' = st.panels
          /\ previews' = st.previews
    /\ UNCHANGED <<pendingUpdates, updateCalls, previewClock>>
    /\ UNCHANGED <<sessionVars, loaderVars, debounceVars, loadersVars, regionVars, versionVars>>

\* The user closes the panel p.
ClosePanel(p) ==
    /\ p \in DOMAIN panels
    /\ ~panels[p].disposed
    /\ LET st == Dispose([panels |-> panels, previews |-> previews], p)
       IN /\ panels' = st.panels
          /\ previews' = st.previews
    /\ UNCHANGED <<textDocuments, pendingUpdates, updateCalls, previewClock>>
    /\ UNCHANGED <<sessionVars, loaderVars, debounceVars, loadersVars, regionVars, versionVars>>

\* The document is closed: onCloseTextDocument(document).
OnCloseTextDocument(uri) ==
    /\ uri \in textDocuments
    /\ textDocuments' = textDocuments \ {uri}
    /\ LET st == IF previews[uri] = None THEN [panels |-> panels, previews |-> previews]
                 ELSE Dispose([panels |-> panels, previews |-> previews],
                              previews[uri][1].panel)
       IN /\ panels' = st.panels
          /\ previews' = st.previews
    /\ UNCHANGED <<pendingUpdates, updateCalls, previewClock>>
    /\ UNCHANGED <<sessionVars, loaderVars, debounceVars, loadersVars, regionVars, versionVars>>

\* onChangeTextDocument(e) for a document that has a preview: the preview's
\* debounced update method is called with the document and the panel, which
\* (re)starts its wait.
OnChangeTextDocument(uri) ==
    /\ uri \in textDocuments
    /\ previews[uri] # None
    /\ LET p == previews[uri][1].panel
       IN pendingUpdates' = {t \in pendingUpdates : t.panel # p}
                               \cup {[panel |-> p, due |-> previewClock + updateWait]}
    /\ UNCHANGED <<previews, panels, textDocuments, updateCalls, previewClock>>
    /\ UNCHANGED <<sessionVars, loaderVars, debounceVars, loadersVars, regionVars, versionVars>>

\* Half a debounce period passes; an update that is due runs before time
\* goes on.
PreviewTick ==
    /\ previewClock < MaxPreviewTicks * (updateWait \div 2)
    /\ \A t \in pendingUpdates : t.due > previewClock
    /\ previewClock' = previewClock + updateWait \div 2
    /\ UNCHANGED <<previews, panels, textDocuments, pendingUpdates, updateCalls>>
    /\ UNCHANGED <<sessionVars, loaderVars, debounceVars, loadersVars, regionVars, versionVars>>

\* The wait of a debounced update method is over: previewProvider.update(d, p)
\* is called with the panel of the last call.
DebouncedUpdateRuns(p) ==
    /\ \E t \in pendingUpdates : t.panel = p /\ t.due <= previewClock
    /\ pendingUpdates' = {t \in pendingUpdates : t.panel # p}
    /\ updateCalls' = Append(updateCalls, [panel |-> p, disposed |-> panels[p].disposed,
                                           at |-> previewClock])
    /\ UNCHANGED <<previews, panels, textDocuments, previewClock>>
    /\ UNCHANGED <<sessionVars, loaderVars, debounceVars, loadersVars, regionVars, versionVars>>

NextPreviews ==
    \/ \E uri \in Uris : OpenTextDocument(uri)
    \/ \E uri \in Uris : ShowPreview(uri)
    \/ \E uriStr \in {None} \cup {Some(uri) : uri \in Uris} : DeserializeWebviewPanel(uriStr)
    \/ \E p \in 1..MaxPanels, ok \in BOOLEAN : OpenTextDocumentReturns(p, ok)
    \/ \E p \in 1..MaxPanels : ClosePanel(p)
    \/ \E uri \in Uris : OnCloseTextDocument(uri)
    \/ \E uri \in Uris : OnChangeTextDocument(uri)
    \/ PreviewTick
    \/ \E p \in 1..MaxPanels : DebouncedUpdateRuns(p)

SpecPreviews == InitPreviews /\ [][NextPreviews]_vars

\* ------------------------------------------------------------------------
\* Supply areas: SupplyAreasLoader.mergeFiles on the results of its upstreams
\* ------------------------------------------------------------------------

\* The longest list of members a supply area or strategic region declares.
MaxMembers == 3

\* An adjacency test that takes every edge.
StatesAreAdjacentOverAnyEdge(stateA, stateB, provinces) ==
    \E k \in DOMAIN stateA.provinces :
        /\ stateA.provinces[k] \in DOMAIN provinces
        /\ \E e \in DOMAIN provinces[stateA.provinces[k]].edges :
              \E k2 \in DOMAIN stateB.provinces :
                  /\ stateB.provinces[k2] \in DOMAIN provinces
                  /\ provinces[stateA.provinces[k]].edges[e].to = stateB.provinces[k2]

\* statesAreAdjacent(stateA, stateB, provinces): an existing province of stateA
\* has an edge that is not 'impassable' to an existing province of stateB.
StatesAreAdjacent(stateA, stateB, provinces) ==
    \E k \in DOMAIN stateA.provinces :
        /\ stateA.provinces[k] \in DOMAIN provinces
        /\ \E e \in DOMAIN provinces[stateA.provinces[k]].edges :
              /\ provinces[stateA.provinces[k]].edges[e].type # "impassable"
              /\ \E k2 \in DOMAIN stateB.provinces :
                    /\ stateB.provinces[k2] \in DOMAIN provinces
                    /\ provinces[stateA.provinces[k]].edges[e].to = stateB.provinces[k2]

\* checkStatesContiguous(states, provinces). accessedStates is kept as the list
\* of its keys in insertion order. The result is undefined (None) or the pair
\* [first state of the list that was not accessed, first key of
\* accessedStates]; when the keys are fewer than the states and yet every
\* state was accessed, `states.find(...)` is undefined and reading its id
\* throws a TypeError.
CheckStatesContiguous(states, provinces) ==
    LET With(v, Op(_)) == CHOOSE r \in {Op(x) : x \in {v}} : TRUE
        Accessed(keys, id) == \E k \in DOMAIN keys : keys[k] = id
        \* for (const state of states) { ... }, st = [stack, accessedStates]
        RECURSIVE ForStates(_, _, _)
        ForStates(st, currentState, k) ==
            IF k > Len(states) THEN st
            ELSE IF ~Accessed(st.accessedStates, states[k].id)
                    /\ StatesAreAdjacent(states[k], currentState, provinces)
                 THEN With([stack |-> Append(st.stack, states[k]),
                            accessedStates |-> Append(st.accessedStates, states[k].id)],
                           LAMBDA st2 : ForStates(st2, currentState, k + 1))
                 ELSE ForStates(st, currentState, k + 1)
        \* while (stack.length) { const currentState = stack.pop(); ... }
        RECURSIVE While(_)
        While(st) ==
            IF st.stack = <<>> THEN st.accessedStates
            ELSE With(ForStates([stack |-> SubSeq(st.stack, 1, Len(st.stack) - 1),
                                 accessedStates |-> st.accessedStates],
                                st.stack[Len(st.stack)], 1),
                      While)
        \* Object.keys(accessedStates)[0]: integer keys from 0 on come first, in
        \* ascending order; the other keys follow in insertion order
        FirstKey(keys) ==
            LET indices == {keys[k] : k \in {j \in DOMAIN keys : keys[j] >= 0}}
            IN  IF indices # {} THEN CHOOSE i \in indices : \A j \in indices : i <= j
                ELSE keys[1]
        Return(keys) ==
            LET rest == {k \in DOMAIN states : ~Accessed(keys, states[k].id)}
            IN  IF Len(keys) = Len(states) THEN [throws |-> FALSE, value |-> None]
                ELSE IF rest = {} THEN [throws |-> TRUE, value |-> None]
                ELSE [throws |-> FALSE,
                      value |-> Some(<<states[CHOOSE k \in rest : \A j \in rest : k <= j].id,
                                       FirstKey(keys)>>)]
    IN  IF Len(states) = 0 THEN [throws |-> FALSE, value |-> None]
        ELSE With(While([stack |-> <<states[1]>>, accessedStates |-> <<states[1].id>>]), Return)

\* A loop over the children that starts after the child 1.
UnassignedAfterTheFirst(children, childToParent) ==
    {i \in DOMAIN children : i > 1 /\ i \notin DOMAIN childToParent}

\* for (let i = 1; i < states.length; i++) { if (!states[i]) continue;
\* if (!(i in stateToSupplyArea)) ... }: the existing children from 1 on that the
\* reverse map has no entry for.
Unassigned(children, childToParent) ==
    {i \in DOMAIN children : i >= 1 /\ i \notin DOMAIN childToParent}

\* validateStatesInSupplyAreas(states, supplyAreas, provinces,
\* badSupplyAreasCount, warnings). `calls` keeps, for every supply area gone
\* through, the states checkStatesContiguous was given and what it returned.
ValidateStatesInSupplyAreas(states, supplyAreas, provinces, badSupplyAreasCount, warnings) ==
    LET With(v, Op(_)) == CHOOSE r \in {Op(x) : x \in {v}} : TRUE
        \* supplyArea.states.map(s => ...).filter(s => !!s),
        \* st = [stateToSupplyArea, warnings, statesInSupplyArea]
        Visit(st, supplyArea, s) ==
            IF s \in DOMAIN st.stateToSupplyArea
            THEN IF s \notin DOMAIN states THEN st
                 ELSE [stateToSupplyArea |-> Claim(st.stateToSupplyArea, s, supplyArea.id),
                       warnings |->
                          Append(st.warnings,
                                 Warning("stateinmultiplesupplyareas",
                                         <<supplyArea.id, st.stateToSupplyArea[s], s>>,
                                         <<supplyArea.file, supplyAreas[st.stateToSupplyArea[s]].file,
                                           states[s].file>>,
                                         <<s, st.stateToSupplyArea[s], supplyArea.id>>)),
                       statesInSupplyArea |-> Append(st.statesInSupplyArea, states[s])]
            ELSE [stateToSupplyArea |-> Claim(st.stateToSupplyArea, s, supplyArea.id),
                  warnings |-> st.warnings,
                  statesInSupplyArea |->
                     IF s \in DOMAIN states THEN Append(st.statesInSupplyArea, states[s])
                     ELSE st.statesInSupplyArea]
        RECURSIVE Map(_, _, _)
        Map(st, supplyArea, k) ==
            IF k > Len(supplyArea.states) THEN st
            ELSE With(Visit(st, supplyArea, supplyArea.states[k]),
                      LAMBDA st2 : Map(st2, supplyArea, k + 1))
        \* the body of the first loop for the supply area at index i,
        \* all == [throws, stateToSupplyArea, warnings, calls]
        Check(all, i, st) ==
            LET badStates == CheckStatesContiguous(st.statesInSupplyArea, provinces)
                call == [supplyArea |-> i,
                         states |-> [k \in DOMAIN st.statesInSupplyArea |->
                                        st.statesInSupplyArea[k].id],
                         result |-> badStates]
            IN  [throws |-> badStates.throws,
                 stateToSupplyArea |-> st.stateToSupplyArea,
                 warnings |->
                    IF ~badStates.throws /\ badStates.value # None
                    THEN Append(st.warnings,
                                Warning("statesnotcontiguous", <<i>>, <<supplyAreas[i].file>>,
                                        <<i, badStates.value[1][1], badStates.value[1][2]>>))
                    ELSE st.warnings,
                 calls |-> Append(all.calls, call)]
        Body(all, i) ==
            IF all.throws THEN all
            ELSE With(Map([stateToSupplyArea |-> all.stateToSupplyArea, warnings |-> all.warnings,
                           statesInSupplyArea |-> <<>>], supplyAreas[i], 1),
                      LAMBDA st : Check(all, i, st))
        \* for (let i = badSupplyAreasCount; i < supplyAreas.length; i++) ...
        RECURSIVE ForSupplyAreas(_, _)
        ForSupplyAreas(visited, n) ==
            IF n = 0 THEN [throws |-> FALSE, stateToSupplyArea |-> <<>>, warnings |-> warnings,
                           calls |-> <<>>]
            ELSE With(ForSupplyAreas(visited, n - 1), LAMBDA all : Body(all, visited[n]))
        \* for (let i = 1; i < states.length; i++) ...
        NoSupplyArea(all) ==
            LET alone == Ascending(Unassigned(states, all.stateToSupplyArea))
            IN  [throws |-> all.throws, calls |-> all.calls,
                 warnings |->
                    IF all.throws THEN <<>>
                    ELSE all.warnings \o
                         [k \in DOMAIN alone |->
                             Warning("statenosupplyarea", <<alone[k]>>, <<states[alone[k]].file>>,
                                     <<alone[k]>>)]]
    IN  With(Ascending({i \in DOMAIN supplyAreas : i >= badSupplyAreasCount}),
             LAMBDA visited : With(ForSupplyAreas(visited, Len(visited)), NoSupplyArea))

\* The types of the edges between provinces.
EdgeTypes == {"impassable", "river"}

\* The province map of the supply area scenarios: the provinces 1, 2 and 3;
\* links gives what lies between 1 and 2, 2 and 3, 1 and 3: nothing, or an
\* edge of a type, which both provinces hold.
LinkedProvinces(links) ==
    LET Link(p, q) == IF {p, q} = {1, 2} THEN links[1]
                      ELSE IF {p, q} = {2, 3} THEN links[2] ELSE links[3]
        To(p) == Ascending({q \in (1..3) \ {p} : Link(p, q) # "none"})
    IN  [p \in 1..3 |->
            [boundingBox |-> [x |-> p - 1, y |-> 0, w |-> 1, h |-> 1], mass |-> 1, type |-> "land",
             edges |-> [k \in DOMAIN To(p) |-> [to |-> To(p)[k], type |-> Link(p, To(p)[k])]]]]

\* The states of the supply area scenarios: the states 1, 2 and 3, state s with
\* province s, state 2 also with the province 4, which does not exist.
SupplyStates ==
    [s \in 1..3 |-> [id |-> s, file |-> "history/states/1.txt",
                     provinces |-> IF s = 2 THEN <<2, 4>> ELSE <<s>>]]

\* A supply area of a file: its id and the states it lists.
SupplyArea(id, states) == [id |-> id, file |-> "map/supplyareas/1.txt", states |-> states]

\* All lists of at most n members of S.
ListsUpTo(S, n) == UNION {[1..k -> S] : k \in 0..n}

\* What sortSupplyAreas gives mergeFiles: supply area 1 with any list of the
\* states 1 to 4 (state 4 does not exist), supply area 2 with one of a few
\* lists, and with or without a supply area at the index -1.
SupplyScenarios ==
    {[kind |-> "supplyAreas", provinces |-> LinkedProvinces(links), states |-> SupplyStates,
      badSupplyAreasCount |-> bad,
      supplyAreas |-> [i \in {bad, 1, 2} \ {0} |->
                          SupplyArea(i, IF i = 1 THEN first ELSE IF i = 2 THEN second ELSE <<3>>)]] :
        links \in [1..3 -> EdgeTypes \cup {"none"}],
        first \in ListsUpTo(1..4, MaxMembers),
        second \in {<<>>, <<3>>, <<1>>, <<2, 3>>},
        bad \in {0 - 1, 0}}

\* SupplyAreasLoader.mergeFiles from the sorted supply areas on: the supply
\* areas are validated against the states and provinces of the upstreams.
\* (The regions of the supply areas come from mergeRegion of loader/common;
\* validateStatesInSupplyAreas does not read them.)
MergeSupplyAreas ==
    /\ regionInput.kind = "supplyAreas"
    /\ regionOutput = None
    /\ regionOutput' = Some(ValidateStatesInSupplyAreas(regionInput.states, regionInput.supplyAreas,
                                                        regionInput.provinces,
                                                        regionInput.badSupplyAreasCount, <<>>))
    /\ UNCHANGED <<regionInput, sessionVars, loaderVars, versionVars, previewVars, debounceVars, loadersVars>>

\* The provinces 1, 2, 3 with the edges `arcs`, each <<p, q>> an edge to q that
\* province p holds; province q holds the edge back only if <<q, p>> is there.
DirectedProvinces(arcs) ==
    LET To(p) == Ascending({q \in 1..3 : <<p, q>> \in arcs})
    IN  [p \in 1..3 |->
            [boundingBox |-> [x |-> p - 1, y |-> 0, w |-> 1, h |-> 1], mass |-> 1, type |-> "land",
             edges |-> [k \in DOMAIN To(p) |-> [to |-> To(p)[k], type |-> "river"]]]]

\* The lists of states checkStatesContiguous is looked at with, over every set
\* of edges the provinces can hold.
ContiguityScenarios ==
    {[kind |-> "contiguity", provinces |-> DirectedProvinces(arcs), states |-> SupplyStates,
      list |-> list] :
        arcs \in SUBSET {a \in (1..3) \X (1..3) : a[1] # a[2]},
        list \in ListsUpTo(1..3, MaxMembers)}

\* `checkStatesContiguous(statesInSupplyArea, provinces)` of
\* validateStatesInSupplyAreas, for the states of a list.
CheckContiguity ==
    /\ regionInput.kind = "contiguity"
    /\ regionOutput = None
    /\ regionOutput' = Some(CheckStatesContiguous([k \in DOMAIN regionInput.list |->
                                                      regionInput.states[regionInput.list[k]]],
                                                  regionInput.provinces))
    /\ UNCHANGED <<regionInput, sessionVars, loaderVars, versionVars, previewVars, debounceVars, loadersVars>>

\* ------------------------------------------------------------------------
\* Strategic regions: StrategicRegionsLoader.mergeFiles; the states loader of
\* states.ts
\* ------------------------------------------------------------------------

\* calculateBoundingBox(strategicRegionNoRegion, provinces, width, warnings) of
\* the strategic regions. The callback of map reads strategicRegion.id, a
\* variable that `let strategicRegion` declares only after the map: for the
\* first province that does not exist the read throws (a ReferenceError; a
\* TypeError on undefined where let is compiled to var) and no warning is
\* pushed.
CalculateBoundingBoxOfStrategicRegion(strategicRegionNoRegion, provinces, width, warnings) ==
    LET Exists(p) == p \in DOMAIN provinces
        valid == SelectSeq(strategicRegionNoRegion.provinces, Exists)
        provincesInStrategicRegion == [k \in DOMAIN valid |-> provinces[valid[k]]]
        Filled(region) == [id |-> strategicRegionNoRegion.id, file |-> strategicRegionNoRegion.file,
                           provinces |-> strategicRegionNoRegion.provinces, region |-> region]
    IN  IF \E k \in DOMAIN strategicRegionNoRegion.provinces :
               ~Exists(strategicRegionNoRegion.provinces[k])
        THEN [throws |-> TRUE, strategicRegion |-> None, warnings |-> warnings]
        ELSE IF Len(provincesInStrategicRegion) > 0
        THEN [throws |-> FALSE,
              strategicRegion |-> Some(Filled(MergeRegions(provincesInStrategicRegion, width))),
              warnings |-> warnings]
        ELSE [throws |-> FALSE, strategicRegion |-> Some(Filled(ZeroRegion)),
              warnings |->
                 IF Len(strategicRegionNoRegion.provinces) > 0
                 THEN Append(warnings, Warning("strategicregionnovalidprovinces",
                                               <<strategicRegionNoRegion.id>>,
                                               <<strategicRegionNoRegion.file>>,
                                               <<strategicRegionNoRegion.id>>))
                 ELSE warnings]

\* validateProvincesInStrategicRegions(provinces, states, strategicRegions,
\* badStatesCount, badStrategicRegionsCount, warnings): the warnings it adds.
\* (The texts of this file have no key; the warnings are named after what
\* they say.)
ValidateProvincesInStrategicRegions(provinces, states, strategicRegions, badStatesCount, badStrategicRegionsCount, warnings) ==
    LET With(v, Op(_)) == CHOOSE r \in {Op(x) : x \in {v}} : TRUE
        \* strategicRegion.provinces.forEach(p => ...), st = [provinceToStrategicRegion, warnings]
        Visit(st, strategicRegion, p) ==
            LET map == st.provinceToStrategicRegion
            IN  IF p \in DOMAIN map
                THEN IF p \notin DOMAIN provinces THEN st
                     ELSE [provinceToStrategicRegion |-> Claim(map, p, strategicRegion.id),
                           warnings |->
                              Append(st.warnings,
                                     Warning("provinceinmultistrategicregions",
                                             <<strategicRegion.id, map[p], p>>,
                                             <<strategicRegion.file, strategicRegions[map[p]].file>>,
                                             <<p, map[p], strategicRegion.id>>))]
                ELSE [provinceToStrategicRegion |-> Claim(map, p, strategicRegion.id),
                      warnings |-> st.warnings]
        RECURSIVE ForEach(_, _, _)
        ForEach(st, strategicRegion, k) ==
            IF k > Len(strategicRegion.provinces) THEN st
            ELSE With(Visit(st, strategicRegion, strategicRegion.provinces[k]),
                      LAMBDA st2 : ForEach(st2, strategicRegion, k + 1))
        \* for (let i = badStrategicRegionsCount; i < strategicRegions.length; i++) ...
        RECURSIVE ForStrategicRegions(_, _)
        ForStrategicRegions(visited, n) ==
            IF n = 0 THEN [provinceToStrategicRegion |-> <<>>, warnings |-> warnings]
            ELSE With(ForStrategicRegions(visited, n - 1),
                      LAMBDA st : ForEach(st, strategicRegions[visited[n]], 1))
        \* for (let i = 1; i < provinces.length; i++) ...
        NotInAny(st) ==
            LET alone == Ascending(Unassigned(provinces, st.provinceToStrategicRegion))
            IN  [provinceToStrategicRegion |-> st.provinceToStrategicRegion,
                 warnings |-> st.warnings \o
                    [k \in DOMAIN alone |->
                        Warning("provincenostrategicregion", <<alone[k]>>, <<>>, <<alone[k]>>)]]
        \* the third loop for the state at index i: the provinces of the state
        \* outside the strategic region most of its provinces are in
        Minority(map, i) ==
            LET mapped == SelectSeq(states[i].provinces,
                                    LAMBDA p : p \in DOMAIN provinces /\ p \in DOMAIN map)
                ids == {map[mapped[k]] : k \in DOMAIN mapped}
                Count(sr) == Cardinality({k \in DOMAIN mapped : map[mapped[k]] = sr})
                FirstAt(sr) == CHOOSE k \in DOMAIN mapped :
                                   map[mapped[k]] = sr /\ \A j \in 1..(k - 1) : map[mapped[j]] # sr
                \* Object.entries: the keys from 0 on ascending, then the others as inserted
                Before(a, b) == IF a >= 0 /\ b >= 0 THEN a < b
                                ELSE IF a >= 0 \/ b >= 0 THEN a >= 0
                                ELSE FirstAt(a) < FirstAt(b)
                \* entries.sort((a, b) => b[1] - a[1])[0]
                most == CHOOSE sr \in ids :
                            \A other \in ids \ {sr} :
                                \/ Count(sr) > Count(other)
                                \/ Count(sr) = Count(other) /\ Before(sr, other)
            IN  IF Cardinality(ids) > 1
                THEN <<SelectSeq(mapped, LAMBDA p : map[p] # most)>>
                ELSE <<>>
        RECURSIVE ForStates(_, _, _)
        ForStates(st, visited, n) ==
            IF n = 0 THEN st.warnings
            ELSE LET i == visited[n]
                     badProvinces == Minority(st.provinceToStrategicRegion, i)
                 IN  ForStates(st, visited, n - 1) \o
                     (IF badProvinces # <<>>
                      THEN <<Warning("provincesnotinsamestrategicregion",
                                     Append(badProvinces[1], i), <<states[i].file>>,
                                     <<i, badProvinces[1]>>)>>
                      ELSE <<>>)
    IN  With(Ascending({i \in DOMAIN strategicRegions : i >= badStrategicRegionsCount}),
             LAMBDA visited :
                 With(NotInAny(ForStrategicRegions(visited, Len(visited))),
                      LAMBDA st : With(Ascending({i \in DOMAIN states : i >= badStatesCount}),
                                       LAMBDA sts : ForStates(st, sts, Len(sts)))))

\* StrategicRegionsLoader.mergeFiles from the sorted strategic regions on:
\* calculateBoundingBox for the records from badStrategicRegionsCount on, then
\* validateProvincesInStrategicRegions. The first calculateBoundingBox that
\* throws ends the merge.
MergeStrategicRegionFiles(sortedStrategicRegions, badStrategicRegionsCount, provinceMap_, states, badStatesCount, warnings) ==
    LET With(v, Op(_)) == CHOOSE r \in {Op(x) : x \in {v}} : TRUE
        \* st = [throws, filledStrategicRegions, warnings]
        Step(st, i) ==
            IF st.throws THEN st
            ELSE With(CalculateBoundingBoxOfStrategicRegion(sortedStrategicRegions[i],
                                                            provinceMap_.provinces,
                                                            provinceMap_.width, st.warnings),
                      LAMBDA c :
                          IF c.throws
                          THEN [throws |-> TRUE, filledStrategicRegions |-> <<>>, warnings |-> <<>>]
                          ELSE [throws |-> FALSE,
                                filledStrategicRegions |->
                                   [j \in DOMAIN st.filledStrategicRegions \cup {i} |->
                                       IF j = i THEN c.strategicRegion[1]
                                       ELSE st.filledStrategicRegions[j]],
                                warnings |-> c.warnings])
        RECURSIVE Fill(_, _)
        Fill(visited, n) ==
            IF n = 0 THEN [throws |-> FALSE, filledStrategicRegions |-> <<>>, warnings |-> warnings]
            ELSE With(Fill(visited, n - 1), LAMBDA st : Step(st, visited[n]))
        Return(st) ==
            IF st.throws THEN [throws |-> TRUE, strategicRegions |-> <<>>, warnings |-> <<>>]
            ELSE [throws |-> FALSE, strategicRegions |-> st.filledStrategicRegions,
                  warnings |->
                     ValidateProvincesInStrategicRegions(provinceMap_.provinces, states,
                                                         st.filledStrategicRegions, badStatesCount,
                                                         badStrategicRegionsCount, st.warnings)]
    IN  With(Ascending({i \in DOMAIN sortedStrategicRegions : i >= badStrategicRegionsCount}),
             LAMBDA visited : With(Fill(visited, Len(visited)), Return))

\* calculateBoundingBox(noBoundingBoxState, provinces, width, height, warnings)
\* of states.ts: it sets state.boundingBox only, and without a valid province
\* it pushes 'statenovalidprovinces' whatever the state declared.
CalculateBoundingBoxOfStatesTs(noBoundingBoxState, provinces, width, height, warnings) ==
    LET Exists(p) == p \in DOMAIN provinces
        missing == SelectSeq(noBoundingBoxState.provinces, LAMBDA p : ~Exists(p))
        valid == SelectSeq(noBoundingBoxState.provinces, Exists)
        RECURSIVE Reduce(_)
        Reduce(k) == IF k = 1 THEN provinces[valid[1]].boundingBox
                     ELSE MergeBoundingBox(Reduce(k - 1), provinces[valid[k]].boundingBox, width)
        w1 == warnings \o [k \in DOMAIN missing |->
                              Warning("stateprovincenotexist", <<noBoundingBoxState.id>>,
                                      <<noBoundingBoxState.file>>,
                                      <<missing[k], noBoundingBoxState.id>>)]
        Filled(box) == [id |-> noBoundingBoxState.id, file |-> noBoundingBoxState.file,
                        provinces |-> noBoundingBoxState.provinces,
                        region |-> [boundingBox |-> box]]
    IN  IF Len(valid) > 0
        THEN LET box == Reduce(Len(valid))
             IN  [throws |-> FALSE, state |-> Filled(box),
                  warnings |->
                     IF 2 * box.w > width \/ 2 * box.h > height
                     THEN Append(w1, Warning("statetoolarge", <<noBoundingBoxState.id>>,
                                             <<noBoundingBoxState.file>>,
                                             <<noBoundingBoxState.id, box.w, box.h>>))
                     ELSE w1]
        ELSE [throws |-> FALSE, state |-> Filled([x |-> 0, y |-> 0, w |-> 0, h |-> 0]),
              warnings |-> Append(w1, Warning("statenovalidprovinces", <<noBoundingBoxState.id>>,
                                              <<noBoundingBoxState.file>>,
                                              <<noBoundingBoxState.id>>))]

\* The province map of the strategic region scenarios: the provinces 1, 2, 3.
RegionProvinceMap ==
    [width |-> 8, height |-> 4, provinces |-> LinkedProvinces(<<"none", "none", "none">>)]

\* A strategic region of a file: its id and the provinces it lists.
StrategicRegion(id, provinces) ==
    [id |-> id, file |-> "map/strategicregions/1.txt", provinces |-> provinces]

\* What sortStrategicRegions gives mergeFiles: strategic region 1 with any list
\* of the provinces 1 to 4 (province 4 does not exist), strategic region 2
\* with one of a few lists, with or without a strategic region at the index
\* -1; the states loader gave one state with the provinces 1, 2 and 3.
StrategicScenarios ==
    {[kind |-> "strategicRegions", provinceMap |-> RegionProvinceMap,
      states |-> [s \in {1} |-> [id |-> 1, file |-> "history/states/1.txt",
                                 provinces |-> <<1, 2, 3>>]],
      badStatesCount |-> 0,
      badStrategicRegionsCount |-> bad,
      strategicRegions |->
         [i \in {bad, 1, 2} \ {0} |->
             StrategicRegion(i, IF i = 1 THEN first ELSE IF i = 2 THEN second ELSE <<3>>)]] :
        first \in ListsUpTo(1..4, MaxMembers),
        second \in {<<>>, <<3>>, <<1>>, <<2, 3>>, <<4>>},
        bad \in {0 - 1, 0}}

\* A state the states loader of states.ts sorted, with any list of the
\* provinces 1 to 4.
StateScenarios ==
    {[kind |-> "states", provinceMap |-> RegionProvinceMap,
      state |-> [id |-> 1, file |-> "history/states/1.txt", provinces |-> list]] :
        list \in ListsUpTo(1..4, MaxMembers)}

MergeStrategicRegions ==
    /\ regionInput.kind = "strategicRegions"
    /\ regionOutput = None
    /\ regionOutput' = Some(MergeStrategicRegionFiles(regionInput.strategicRegions,
                                                      regionInput.badStrategicRegionsCount,
                                                      regionInput.provinceMap, regionInput.states,
                                                      regionInput.badStatesCount, <<>>))
    /\ UNCHANGED <<regionInput, sessionVars, loaderVars, versionVars, previewVars, debounceVars, loadersVars>>

\* mergeFiles of states.ts from the sorted state on: calculateBoundingBox
\* fills it, then validateProvinceInState goes through it.
FillState ==
    /\ regionInput.kind = "states"
    /\ regionOutput = None
    /\ regionOutput' =
          Some(LET c == CalculateBoundingBoxOfStatesTs(regionInput.state,
                                                       regionInput.provinceMap.provinces,
                                                       regionInput.provinceMap.width,
                                                       regionInput.provinceMap.height, <<>>)
               IN  [c EXCEPT !.warnings =
                       ValidateProvinceInState(regionInput.provinceMap,
                                               [i \in {regionInput.state.id} |-> 1],
                                               regionInput.state.id + 1, 0, <<c.state>>,
                                               c.warnings)])
    /\ UNCHANGED <<regionInput, sessionVars, loaderVars, versionVars, previewVars, debounceVars, loadersVars>>

\* ------------------------------------------------------------------------
\* The single-file loaders when the processing of the file raises
\* ------------------------------------------------------------------------

\* loadState(stateFile, globalWarnings) when reading the file (raisedAt = 0) or
\* processing its definition number raisedAt raises: `result` lives inside the
\* try block and the catch block returns []; the warnings pushed for the
\* definitions before stay in globalWarnings. raisedAt = None: nothing raises.
LoadStateRaising(stateFile, data, raisedAt) ==
    IF raisedAt = None THEN LoadState(stateFile, data)
    ELSE [result |-> <<>>,
          warnings |-> LoadState(stateFile, SubSeq(data, 1, raisedAt[1] - 1)).warnings]

\* loadSupplyArea(file, globalWarnings): `result` is declared before the try
\* block and returned after the catch block, so the records pushed before the
\* exception are returned.
LoadSupplyArea(file, data, raisedAt) ==
    LET done == IF raisedAt = None THEN Len(data)
                ELSE IF raisedAt[1] = 0 THEN 0 ELSE raisedAt[1] - 1
        Id(k) == IF data[k].id # 0 THEN data[k].id ELSE 0 - 1
        Warn(k) ==
            (IF data[k].id = 0
             THEN <<Warning("supplyareanoid", <<Id(k)>>, <<file>>, <<file>>)>> ELSE <<>>)
            \o (IF Len(data[k].provinces) = 0
                THEN <<Warning("supplyareanostates", <<Id(k)>>, <<file>>, <<Id(k), file>>)>>
                ELSE <<>>)
        RECURSIVE Warnings(_)
        Warnings(k) == IF k = 0 THEN <<>> ELSE Warnings(k - 1) \o Warn(k)
    IN  [result |-> [k \in 1..done |-> [id |-> Id(k), file |-> file, states |-> data[k].provinces]],
         warnings |-> Warnings(done)]

\* loadStrategicRegion(file, globalWarnings): as loadSupplyArea.
LoadStrategicRegion(file, data, raisedAt) ==
    LET done == IF raisedAt = None THEN Len(data)
                ELSE IF raisedAt[1] = 0 THEN 0 ELSE raisedAt[1] - 1
        Id(k) == IF data[k].id # 0 THEN data[k].id ELSE 0 - 1
        Warn(k) ==
            (IF data[k].id = 0
             THEN <<Warning("strategicregionnoid", <<Id(k)>>, <<file>>, <<file>>)>> ELSE <<>>)
            \o (IF Len(data[k].provinces) = 0
                THEN <<Warning("strategicregionnoprovinces", <<Id(k)>>, <<file>>, <<Id(k), file>>)>>
                ELSE <<>>)
        RECURSIVE Warnings(_)
        Warnings(k) == IF k = 0 THEN <<>> ELSE Warnings(k - 1) \o Warn(k)
    IN  [result |-> [k \in 1..done |-> [id |-> Id(k), file |-> file,
                                         provinces |-> data[k].provinces]],
         warnings |-> Warnings(done)]

\* A definition file with up to two definitions (id and member list), read
\* without an exception or raising at the read (0) or at one definition.
FileScenarios ==
    UNION {{[kind |-> "file", data |-> data, raisedAt |-> raisedAt] :
               raisedAt \in {None} \cup {Some(k) : k \in 0..Len(data)}} :
             data \in ListsUpTo({StateDefinition(1, <<1>>), StateDefinition(0, <<>>),
                                 StateDefinition(2, <<1, 2>>)}, MaxMembers - 1)}

\* The file loaders of the three folders read the file.
LoadFromFile ==
    /\ regionInput.kind = "file"
    /\ regionOutput = None
    /\ regionOutput' =
          Some([states |-> LoadStateRaising("history/states/1.txt", regionInput.data,
                                            regionInput.raisedAt),
                supplyAreas |-> LoadSupplyArea("map/supplyareas/1.txt", regionInput.data,
                                               regionInput.raisedAt),
                strategicRegions |-> LoadStrategicRegion("map/strategicregions/1.txt",
                                                         regionInput.data, regionInput.raisedAt)])
    /\ UNCHANGED <<regionInput, sessionVars, loaderVars, versionVars, previewVars, debounceVars, loadersVars>>

\* The merges and the file loaders, each on what it is given.
InitRegions ==
    /\ SessionUnused
    /\ VersionsUnused
    /\ PreviewsUnused
    /\ LoaderUnused
    /\ LoadersUnused
    /\ regionInput \in SupplyScenarios \cup StrategicScenarios \cup StateScenarios
                        \cup FileScenarios \cup ContiguityScenarios
    /\ regionOutput = None

NextRegions ==
    \/ MergeSupplyAreas
    \/ MergeStrategicRegions
    \/ FillState
    \/ LoadFromFile
    \/ CheckContiguity

SpecRegions == InitRegions /\ [][NextRegions]_vars

\* ------------------------------------------------------------------------
\* Properties of the session
\* ------------------------------------------------------------------------

ChangeCommands == {"warnings", "continents", "terrains", "provinces", "states", "countries"}

\* The messages refresh r handed to the webview, in order.
PostsBy(r) == SelectSeq(sent, LAMBDA e : e.by = r)

\* How many messages with a command of cmds refresh r handed to the webview.
CountBy(r, cmds) == Len(SelectSeq(sent, LAMBDA e : e.by = r /\ e.msg.command \in cmds))

\* The refreshes suspended inside sendProvinceMapSummaryToWebview.
InFlight == {r \in Refreshes : pc[r] \notin {"idle", "done"}}

\* The path matches a dependency of the world map.
Relevant(path) == \E k \in DOMAIN Dependencies : MatchPathEnd(path, Split(Dependencies[k]))

\* C1: at most one refresh of a session is in flight at any time; a refresh
\* requested while another is suspended in its load does not start before the
\* other has completed.
C1_OneRefreshInFlight == Cardinality(InFlight) <= 1

C3_ReplacedOnlyOnSuccess ==
    \A r \in Refreshes :
        (pc[r] = "done" /\ outcome[r] \in {"loadfailed", "sendfailed"}) =>
            (worldMap[r] = None \/ worldMap[r] = oldCachedWorldMap[r])

\* C4: once a refresh has ended in a caught failure, a file-change notification
\* for a file the world map depends on starts a new refresh.
C4_ChangeAfterFailureRefreshes ==
    [][(/\ changes' = changes + 1
        /\ Relevant(lastChange'.path)
        /\ \E r \in Refreshes : pc[r] = "done" /\ outcome[r] \in {"loadfailed", "sendfailed"})
       => nStarted' = nStarted + 1]_vars

\* No refresh that started before r has had its load return.
FirstSuccessful(r) == \A q \in 1..(r - 1) : worldMap[q] = None

\* C10: a diff is attempted only by a plain refresh that found a previous
\* snapshot; a forced refresh and the first successful refresh send exactly one
\* 'provincemapsummary' with empty provinces, states and countries, and no
\* change message.
C10_DiffOnlyWhenPlainAndCached ==
    \A r \in Refreshes :
        /\ diffResult[r] # None => (~force[r] /\ oldCachedWorldMap[r] # None)
        /\ (pc[r] = "done" /\ outcome[r] \in {"full", "diff"} /\ (force[r] \/ FirstSuccessful(r))) =>
              /\ CountBy(r, ChangeCommands) = 0
              /\ CountBy(r, {"provincemapsummary"}) = 1
              /\ \A k \in DOMAIN sent :
                    (sent[k].by = r /\ sent[k].msg.command = "provincemapsummary") =>
                        /\ sent[k].msg.data.provinces = <<>>
                        /\ sent[k].msg.data.states = <<>>
                        /\ sent[k].msg.data.countries = <<>>

\* A forced refresh that found a different previous snapshot has completed.
C10_Witness ==
    \E r \in Refreshes :
        /\ pc[r] = "done" /\ force[r] /\ outcome[r] = "full"
        /\ oldCachedWorldMap[r] # None /\ oldCachedWorldMap[r] # worldMap[r]

\* The path matches an entry of the dependency list the session holds.
MatchesStored(path) ==
    /\ worldMapDependencies # None
    /\ \E k \in DOMAIN worldMapDependencies[1] : MatchPathEnd(path, worldMapDependencies[1][k])

\* C12: a run of the change callback starts a refresh only if the changed path
\* matches an entry of the stored dependency list, and that refresh is not
\* forced; for a path matching no entry it starts no refresh and sends nothing.
C12_ChangeRefreshesOnlyForDependencies ==
    [][changes' = changes + 1 =>
          /\ nStarted' > nStarted =>
                /\ MatchesStored(lastChange'.path)
                /\ nStarted' = nStarted + 1
                /\ force'[nStarted'] = FALSE
                /\ trigger'[nStarted'] = "change"
          /\ ~MatchesStored(lastChange'.path) =>
                /\ nStarted' = nStarted
                /\ pc' = pc
                /\ sent' = sent]_vars

\* The second change notification has started a plain refresh that has completed.
C12_Witness ==
    \E r \in Refreshes :
        /\ trigger[r] = "change" /\ pc[r] = "done" /\ ~force[r]
        /\ changes = 2
        /\ lastChange.started

\* C11: of the notifications of a burst (each less than the quiet period after
\* the one before) at most one run of the callback starts a refresh, and a
\* refresh starts only when every notification so far is a full quiet period old.
C11_BurstStartsOneRefreshAfterQuiet ==
    \A i \in DOMAIN events :
        (events[i].kind = "run" /\ events[i].started) =>
            /\ \A j \in 1..(i - 1) :
                  events[j].kind = "notify" => events[j].at + wait <= events[i].at
            /\ \A k \in (i + 1)..Len(events) :
                  (events[k].kind = "run" /\ events[k].started) =>
                      \E j \in (i + 1)..(k - 1) : events[j].kind = "notify"

\* ------------------------------------------------------------------------
\* Properties of the diff
\* ------------------------------------------------------------------------

\* Refresh r is a plain refresh whose load returned and that found a snapshot.
Diffing(r) == ~force[r] /\ oldCachedWorldMap[r] # None /\ worldMap[r] # None

\* The snapshot refresh r diffs against, and the one it loaded.
OldOf(r) == oldCachedWorldMap[r][1]

NewOf(r) == worldMap[r][1]

ListCommands == {"provinces", "states", "countries"}

\* [listStart, listEnd) of one of the three lists in the snapshot m.
ListStart(m, cmd) ==
    IF cmd = "provinces" THEN m.badProvincesCount
    ELSE IF cmd = "states" THEN m.badStatesCount ELSE 0

ListEnd(m, cmd) ==
    IF cmd = "provinces" THEN m.provincesCount
    ELSE IF cmd = "states" THEN m.statesCount ELSE m.countriesCount

\* The new and the old item at index i of a list differ.
Differs(r, cmd, i) == Get(NewOf(r)[cmd], i) # Get(OldOf(r)[cmd], i)

\* The maximal runs <<s, e>> of consecutive differing indices s .. e - 1.
Runs(r, cmd) ==
    LET lo == ListStart(NewOf(r), cmd)
        hi == ListEnd(NewOf(r), cmd)
        starts == {s \in lo..(hi - 1) : Differs(r, cmd, s) /\ (s = lo \/ ~Differs(r, cmd, s - 1))}
    IN  {<<s, CHOOSE e \in (s + 1)..hi :
                  (e = hi \/ ~Differs(r, cmd, e)) /\ \A j \in s..(e - 1) : Differs(r, cmd, j)>> :
            s \in starts}

\* The pieces of at most 300 indices the runs are cut into.
Pieces(r, cmd) ==
    UNION {{<<run[1] + 300 * k, IF run[1] + 300 * (k + 1) < run[2] THEN run[1] + 300 * (k + 1) ELSE run[2]>> :
              k \in 0..((run[2] - run[1] - 1) \div 300)} : run \in Runs(r, cmd)}

\* The change messages a complete diff of refresh r consists of.
WholesaleChanged(r) == {k \in {"warnings", "continents", "terrains"} : OldOf(r)[k] # NewOf(r)[k]}

TotalChangeMessages(r) ==
    Cardinality(WholesaleChanged(r)) + Cardinality(Pieces(r, "provinces"))
        + Cardinality(Pieces(r, "states")) + Cardinality(Pieces(r, "countries"))

\* One of the seven compared scalar fields differs.
ScalarChanged(r) ==
    \/ OldOf(r).width # NewOf(r).width
    \/ OldOf(r).height # NewOf(r).height
    \/ OldOf(r).provincesCount # NewOf(r).provincesCount
    \/ OldOf(r).statesCount # NewOf(r).statesCount
    \/ OldOf(r).countriesCount # NewOf(r).countriesCount
    \/ OldOf(r).badProvincesCount # NewOf(r).badProvincesCount
    \/ OldOf(r).badStatesCount # NewOf(r).badStatesCount

\* The ranged messages of one list refresh r has sent, in order.
Ranged(r, cmd) == SelectSeq(sent, LAMBDA e : e.by = r /\ e.msg.command = cmd)

\* C6: a plain refresh with a previous snapshot in which one of the seven
\* scalar fields differs sends no change message and exactly one
\* 'provincemapsummary'.
C6_ScalarChangeSendsSummary ==
    \A r \in Refreshes :
        (Diffing(r) /\ ScalarChanged(r)) =>
            /\ CountBy(r, ChangeCommands) = 0
            /\ CountBy(r, {"provincemapsummary"}) = 1

\* A completed plain refresh whose snapshots differ in badStatesCount.
C6_Witness ==
    \E r \in Refreshes :
        /\ pc[r] = "done" /\ Diffing(r) /\ ScalarChanged(r)
        /\ OldOf(r).badStatesCount # NewOf(r).badStatesCount

\* C7: a plain refresh whose diff consists of more than 30 change messages sends
\* none of them and one 'provincemapsummary'; with 30 or fewer it sends them all
\* and no 'provincemapsummary'.
C7_ThirtyMessagesLimit ==
    \A r \in Refreshes :
        (Diffing(r) /\ ~ScalarChanged(r)) =>
            /\ TotalChangeMessages(r) > 30 =>
                  /\ CountBy(r, ChangeCommands) = 0
                  /\ CountBy(r, {"provincemapsummary"}) = 1
            /\ TotalChangeMessages(r) <= 30 =>
                  /\ CountBy(r, {"provincemapsummary"}) = 0
                  /\ CountBy(r, ChangeCommands) <= TotalChangeMessages(r)
                  /\ pc[r] = "done" => CountBy(r, ChangeCommands) = TotalChangeMessages(r)

\* A completed plain refresh with 31 single changed provinces and nothing else.
C7_Witness ==
    \E r \in Refreshes :
        /\ pc[r] = "done" /\ Diffing(r) /\ ~ScalarChanged(r)
        /\ Cardinality(Runs(r, "provinces")) = 31
        /\ TotalChangeMessages(r) = 31
        /\ \A run \in Runs(r, "provinces") : run[2] = run[1] + 1

\* The list the renderer holds after applying the ranged message m to `list`.
Apply(list, m) ==
    [i \in DOMAIN list |-> IF i \in m.start..(m.end - 1) THEN m.data[i - m.start + 1] ELSE list[i]]

ApplyAll(list, msgs) ==
    LET RECURSIVE Go(_, _)
        Go(l, k) == IF k > Len(msgs) THEN l ELSE Go(Apply(l, msgs[k].msg), k + 1)
    IN  Go(list, 1)

\* The renderer's copy of a list on [listStart, listEnd): its JSON image.
RendererList(m, cmd) ==
    [i \in ListStart(m, cmd)..(ListEnd(m, cmd) - 1) |->
        IF Get(m[cmd], i) = Undefined THEN Null ELSE Get(m[cmd], i)]

\* C8: after a successful diff the ranged messages of each list are ascending
\* and disjoint, hold differing indices only, cover every differing index of
\* [listStart, listEnd), and applied in order to the old list give the new one.
C8_RangesCoverExactlyTheChanges ==
    \A r \in Refreshes : \A cmd \in ListCommands :
        (pc[r] = "done" /\ outcome[r] = "diff") =>
            LET ms == Ranged(r, cmd)
                lo == ListStart(NewOf(r), cmd)
                hi == ListEnd(NewOf(r), cmd)
            IN  /\ \A k \in DOMAIN ms :
                      /\ lo <= ms[k].msg.start /\ ms[k].msg.start < ms[k].msg.end
                      /\ ms[k].msg.end <= hi
                      /\ k < Len(ms) => ms[k].msg.end <= ms[k + 1].msg.start
                      /\ \A i \in ms[k].msg.start..(ms[k].msg.end - 1) : Differs(r, cmd, i)
                /\ \A i \in lo..(hi - 1) :
                      Differs(r, cmd, i) =>
                          \E k \in DOMAIN ms : i \in ms[k].msg.start..(ms[k].msg.end - 1)
                /\ ApplyAll(RendererList(OldOf(r), cmd), ms) = RendererList(NewOf(r), cmd)

\* A successful diff that sent two ranged messages for the states, the first
\* for more than one index.
C8_Witness ==
    \E r \in Refreshes :
        /\ pc[r] = "done" /\ outcome[r] = "diff"
        /\ Len(Ranged(r, "states")) = 2
        /\ Ranged(r, "states")[1].msg.end > Ranged(r, "states")[1].msg.start + 1
        /\ \E i \in DOMAIN NewOf(r).states : NewOf(r).states[i] = Undefined /\ Differs(r, "states", i)

\* C9: no ranged message of a diff spans more than 300 indices, and the messages
\* of a list are its runs of changed entries, each cut into pieces of exactly
\* 300 indices followed by the remainder.
C9_RunsSplitAt300 ==
    \A r \in Refreshes : \A cmd \in ListCommands :
        /\ \A k \in DOMAIN sent :
              (sent[k].by = r /\ sent[k].msg.command = cmd) =>
                  sent[k].msg.end - sent[k].msg.start <= 300
        /\ (pc[r] = "done" /\ outcome[r] = "diff") =>
              /\ {<<e.msg.start, e.msg.end>> : e \in {Ranged(r, cmd)[k] : k \in DOMAIN Ranged(r, cmd)}}
                    = Pieces(r, cmd)
              /\ Len(Ranged(r, cmd)) = Cardinality(Pieces(r, cmd))

\* A successful diff whose run of 601 changed states went out as 300 + 300 + 1.
C9_Witness ==
    \E r \in Refreshes :
        /\ pc[r] = "done" /\ outcome[r] = "diff"
        /\ \E run \in Runs(r, "states") : run[2] - run[1] = 601
        /\ Len(Ranged(r, "states")) = 3
        /\ Ranged(r, "states")[1].msg.end - Ranged(r, "states")[1].msg.start = 300
        /\ Ranged(r, "states")[2].msg.start = Ranged(r, "states")[1].msg.end
        /\ Ranged(r, "states")[3].msg.end - Ranged(r, "states")[3].msg.start = 1

\* The place of a command in the queue sendDifferences builds.
QueueOrder == <<"warnings", "continents", "terrains", "provinces", "states", "countries">>

Rank(cmd) == CHOOSE n \in DOMAIN QueueOrder : QueueOrder[n] = cmd

\* The change messages refresh r handed to the webview, in order.
ChangePosts(r) == SelectSeq(sent, LAMBDA e : e.by = r /\ e.msg.command \in ChangeCommands)

\* C30: the change messages of a successful diff are sent in queue order,
\* 'warnings' (only when the warnings changed), 'continents', 'terrains', the
\* 'provinces' ranges in ascending order, the 'states' ranges, the 'countries'
\* ranges; and the first of them is sent only when the whole queue has been
\* computed: what was sent and what still waits make up the computed diff.
C30_ChangesSentInQueueOrder ==
    \A r \in Refreshes :
        LET posts == ChangePosts(r)
        IN  /\ \A i, j \in DOMAIN posts :
                   i < j =>
                       \/ Rank(posts[i].msg.command) < Rank(posts[j].msg.command)
                       \/ /\ posts[i].msg.command = posts[j].msg.command
                          /\ posts[i].msg.command \in ListCommands
                          /\ posts[i].msg.end <= posts[j].msg.start
            /\ posts # <<>> =>
                   /\ Diffing(r)
                   /\ diffResult[r] # None
                   /\ diffResult[r][1].ok
                   /\ [k \in DOMAIN posts |-> posts[k].msg] \o changeMessages[r]
                          = diffResult[r][1].msgs
            /\ (\E i \in DOMAIN posts : posts[i].msg.command = "warnings") =>
                   OldOf(r).warnings # NewOf(r).warnings

\* A completed diff that sent the three wholesale messages, two 'provinces'
\* ranges, a 'states' range and a 'countries' range.
C30_Witness ==
    \E r \in Refreshes :
        /\ pc[r] = "done" /\ outcome[r] = "diff"
        /\ [k \in DOMAIN ChangePosts(r) |-> ChangePosts(r)[k].msg.command]
               = <<"warnings", "continents", "terrains", "provinces", "provinces",
                   "states", "countries">>

\* ------------------------------------------------------------------------
\* Properties of the loaders of the world map
\* ------------------------------------------------------------------------

\* C13: when the province map loader says shouldReload, so do the states,
\* strategic regions and supply areas loaders; when the states loader says
\* it, so do the strategic regions and supply areas loaders.
C13_ShouldReloadGoesDownstream ==
    /\ DefaultMapShouldReload =>
          StatesShouldReload /\ StrategicRegionsShouldReload /\ SupplyAreasShouldReload
    /\ StatesShouldReload => StrategicRegionsShouldReload /\ SupplyAreasShouldReload

\* The loaders whose mergeFiles awaits the load of the loader l.
Upstream(l) ==
    IF l = "states" THEN {"defaultMap"}
    ELSE IF l = "defaultMap" THEN {}
    ELSE {"defaultMap", "states"}

\* C14: while a loader merges, the load of each of its upstream loaders has
\* completed.
C14_MergeAfterUpstreamLoads ==
    \A l \in Loaders :
        loadPc[l] = "merging" => \A u \in Upstream(l) : loadPc[u] = "done"

C14_Witness ==
    /\ loadPc["supplyAreas"] = "merging"
    /\ loadPc["strategicRegions"] = "merging"
    /\ loadPc["states"] = "done"

\* ------------------------------------------------------------------------
\* Properties of the states loader
\* ------------------------------------------------------------------------

\* The warnings of a returned result with the given text.
WarningsOf(result, text) == SelectSeq(result.warnings, LAMBDA w : w.text = text)

\* The ids a gap warning speaks of: one id, or the ids first..last.
Covers(w) == IF Len(w.args) = 1 THEN {w.args[1]} ELSE w.args[1]..w.args[2]

\* C16: in every returned result each id of 1..maxId without a record is
\* covered by exactly one gap warning, each gap warning covers one maximal
\* run of missing ids (as one id, or as first-last with first < last) and no
\* id with a record; ids {1, 2, 5} give the one warning 3-4.
C16_GapWarningsCoverTheMissingIds ==
    \A n \in DOMAIN returned :
        LET states == returned[n].result.states
            maxId == returned[n].result.length - 1
            present == {i \in DOMAIN states : i >= 1}
            missing == (1..maxId) \ present
            gaps == WarningsOf(returned[n], "statenotexist")
        IN  /\ missing \subseteq UNION {Covers(gaps[g]) : g \in DOMAIN gaps}
            /\ \A g, h \in DOMAIN gaps : g # h => Covers(gaps[g]) \cap Covers(gaps[h]) = {}
            /\ \A g \in DOMAIN gaps :
                  LET w == gaps[g]
                      first == w.args[1]
                      last == w.args[Len(w.args)]
                  IN  /\ Len(w.args) \in {1, 2}
                      /\ Len(w.args) = 2 => first < last
                      /\ Covers(w) \subseteq missing
                      /\ (first - 1) \notin missing
                      /\ (last + 1) \notin missing
            /\ present = {1, 2, 5} =>
                  Len(gaps) = 1 /\ gaps[1].args = <<3, 4>>

C16_Witness ==
    \E n \in DOMAIN returned :
        /\ {i \in DOMAIN returned[n].result.states : i >= 1} = {1, 2, 5}
        /\ Len(WarningsOf(returned[n], "statenotexist")) = 1

\* C16, further cases: a result with two gaps, one of a single id.
C16_WitnessTwoGaps ==
    \E n \in DOMAIN returned :
        LET gaps == WarningsOf(returned[n], "statenotexist")
        IN  Len(gaps) = 2 /\ Len(gaps[1].args) = 1 /\ Len(gaps[2].args) = 2

\* The largest id field of the definitions a merge is given (0 without one).
MaxRawId(input) ==
    LET ids == {input[k].raw : k \in DOMAIN input} \cup {0}
    IN  CHOOSE i \in ids : \A j \in ids : j <= i

\* C18: a merge throws exactly when the largest id among its raw records is
\* above 10000; when it throws no record has been renumbered or placed, the
\* loader has no new result and nothing is returned.
C18_ThrowsExactlyAboveTenThousand ==
    [][(loads' = loads + 1 /\ lastLoad'.kind \in {"merged", "threw"}) =>
          /\ lastLoad'.kind = "threw" <=> MaxRawId(lastLoad'.input) > 10000
          /\ lastLoad'.kind = "merged" =>
                /\ Len(returned') = Len(returned) + 1
                /\ loaderResult' = Some(returned'[Len(returned')])
          /\ lastLoad'.kind = "threw" =>
                /\ \A k \in DOMAIN lastLoad'.input :
                      heap'[lastLoad'.input[k].o].id = lastLoad'.input[k].id
                /\ loaderResult' = loaderResult
                /\ returned' = returned]_vars

C18_Witness ==
    /\ lastLoad.kind = "threw"
    /\ \E k \in DOMAIN lastLoad.input : lastLoad.input[k].raw = 10001
    /\ \E k, l \in DOMAIN lastLoad.input : k # l /\ lastLoad.input[k].raw = lastLoad.input[l].raw

\* C18, the other side of the limit: a merge with the largest id 10000 returns.
C18_WitnessAtLimit ==
    /\ lastLoad.kind = "merged"
    /\ MaxRawId(lastLoad.input) = 10000

\* A step of load() that merged: the records given to mergeFiles are
\* lastLoad'.input, the result is the last of returned'.
Merges == loads' = loads + 1 /\ lastLoad'.kind = "merged"

\* C15: when several records of a merge claim the same positive id, the first
\* of them in input order is the record at that id, each later one holds a
\* negative id no other record of the merge holds, and for each later one
\* there is exactly one conflict warning, with the files of the later and of
\* the first record.
C15_FirstClaimantKeepsTheId ==
    [][Merges =>
          LET input == lastLoad'.input
              result == returned'[Len(returned')]
              Id(k) == heap'[input[k].o].id
              conflicts == WarningsOf(result, "stateidconflict")
          IN  \A k \in DOMAIN input :
                  (input[k].raw > 0 /\ \A j \in 1..(k - 1) : input[j].raw # input[k].raw) =>
                      /\ input[k].raw \in DOMAIN result.result.states
                      /\ result.result.states[input[k].raw] = input[k].o
                      /\ \A l \in (k + 1)..Len(input) :
                            input[l].raw = input[k].raw =>
                                /\ Id(l) < 0
                                /\ \A m \in DOMAIN input : m # l => Id(m) # Id(l)
                                /\ Cardinality({c \in DOMAIN conflicts :
                                                   /\ conflicts[c].source = <<Id(l)>>
                                                   /\ conflicts[c].args = <<input[k].raw>>}) = 1
                                /\ \A c \in DOMAIN conflicts :
                                      conflicts[c].source = <<Id(l)>> =>
                                          conflicts[c].relatedFiles = <<input[l].file, input[k].file>>]_vars

\* C17: a merge of the very records of the merge before it (the cached
\* results of unchanged files) returns the same array of states, the same
\* badStatesCount and the same conflict and gap warnings in the same order.
C17_MergingAgainGivesTheSame ==
    [][(Merges /\ lastLoad.kind = "merged"
           /\ [k \in DOMAIN lastLoad'.input |-> lastLoad'.input[k].o]
                = [k \in DOMAIN lastLoad.input |-> lastLoad.input[k].o]) =>
          LET first == returned[Len(returned)]
              second == returned'[Len(returned')]
          IN  /\ second.result.states = first.result.states
              /\ second.result.length = first.result.length
              /\ second.result.badStatesCount = first.result.badStatesCount
              /\ WarningsOf(second, "stateidconflict") = WarningsOf(first, "stateidconflict")
              /\ WarningsOf(second, "statenotexist") = WarningsOf(first, "statenotexist")]_vars

\* C19: the records of a merge whose definition has no id, the id 0 or a
\* negative id hold negative ids that go down in input order, and the
\* negative ids of the merge are -1, -2, ... down to badStatesCount, each
\* record at its id in the array.
C19_BadRecordsGetSyntheticIds ==
    [][Merges =>
          LET input == lastLoad'.input
              result == returned'[Len(returned')].result
              Id(k) == heap'[input[k].o].id
              bad == {k \in DOMAIN input : input[k].raw <= 0}
          IN  /\ \A k \in bad :
                    /\ result.badStatesCount <= Id(k) /\ Id(k) <= 0 - 1
                    /\ Id(k) \in DOMAIN result.states
                    /\ result.states[Id(k)] = input[k].o
              /\ \A k, l \in bad : k < l => Id(k) > Id(l)
              /\ {Id(k) : k \in {j \in DOMAIN input : Id(j) < 0}}
                    = result.badStatesCount..(0 - 1)]_vars

\* C20: after a merge no record with a negative id has a region, and no
\* warning of calculateBoundingBox or validateProvinceInState names a state
\* with a negative id.
C20_BadRecordsAreLeftOut ==
    [][Merges =>
          LET input == lastLoad'.input
              warnings == returned'[Len(returned')].warnings
          IN  /\ \A k \in DOMAIN input :
                    heap'[input[k].o].id < 0 => heap'[input[k].o].region = None
              /\ \A w \in DOMAIN warnings :
                    /\ warnings[w].text \in {"stateprovincenotexist", "statetoolarge",
                                             "statenovalidprovinces", "statehassea",
                                             "provinceinmultistates"}
                          => warnings[w].source[1] >= 0
                    /\ warnings[w].text = "provinceinmultistates" => warnings[w].source[2] >= 0]_vars

\* C26: the reverse map from a province to its state keeps the first state
\* that lists the province, the states taken in ascending index order: after
\* a merge there is, for every later state that lists an existing province,
\* exactly one 'provinceinmultistates' warning, and its sources are the later
\* state, the first state and the province; there is no other such warning.
C26_FirstParentKeepsTheChild ==
    [][Merges =>
          LET states == returned'[Len(returned')].result.states
              multi == WarningsOf(returned'[Len(returned')], "provinceinmultistates")
              Id(i) == heap'[states[i]].id
              Lists(i, p) == \E k \in DOMAIN heap'[states[i]].provinces :
                                heap'[states[i]].provinces[k] = p
              First(p) == CHOOSE i \in DOMAIN states :
                              Lists(i, p) /\ \A j \in DOMAIN states : j < i => ~Lists(j, p)
              later == {c \in (DOMAIN states) \X (DOMAIN provinceMap'.provinces) :
                           Lists(c[1], c[2]) /\ First(c[2]) # c[1]}
          IN  /\ Len(multi) = Cardinality(later)
              /\ \A c \in later :
                     Cardinality({k \in DOMAIN multi :
                                     multi[k].source = <<Id(c[1]), Id(First(c[2])), c[2]>>}) = 1]_vars

\* A merge result in which two later states were warned about the same
\* province, both against the same first state.
C26_Witness ==
    /\ lastLoad.kind = "merged"
    /\ LET multi == WarningsOf(returned[Len(returned)], "provinceinmultistates")
       IN  \E k, l \in DOMAIN multi :
               /\ multi[k].source[1] # multi[l].source[1]
               /\ multi[k].source[2] = multi[l].source[2]
               /\ multi[k].source[3] = multi[l].source[3]

\* C27: after a merge, a province that several states list counts only for the
\* region of the first state that lists it (the states taken in the order
\* validateProvinceInState goes through them): the region of every state is
\* the merge of the existing provinces it is the first claimant of, and the
\* zero region when there is none.
C27_FirstStateOwnsTheProvince ==
    [][Merges =>
          LET states == returned'[Len(returned')].result.states
              map == provinceMap'
              visited == Ascending(DOMAIN states)
              Lists(i, p) == \E k \in DOMAIN heap'[states[i]].provinces :
                                heap'[states[i]].provinces[k] = p
              First(i, p) == \A j \in DOMAIN states : j < i => ~Lists(j, p)
              Owned(i) == SelectSeq(heap'[states[i]].provinces,
                                    LAMBDA p : p \in DOMAIN map.provinces /\ First(i, p))
          IN  \A n \in DOMAIN visited :
                  LET i == visited[n]
                  IN  heap'[states[i]].region # None =>
                          heap'[states[i]].region[1] =
                              IF Owned(i) = <<>> THEN ZeroRegion
                              ELSE MergeRegions([k \in DOMAIN Owned(i) |-> map.provinces[Owned(i)[k]]],
                                                map.width)]_vars

\* ------------------------------------------------------------------------
\* Properties of the merges of supply areas and strategic regions
\* ------------------------------------------------------------------------

\* What a merge or a file loader of kind `kind` gave back.
Output(kind) == regionInput.kind = kind /\ regionOutput # None

\* How many warnings with this text and these sources there are.
HowMany(warnings, text, source) ==
    Cardinality({k \in DOMAIN warnings : warnings[k].text = text /\ warnings[k].source = source})

\* No member of the list exists upstream.
NoneResolves(list, upstream) == \A k \in DOMAIN list : list[k] \notin DOMAIN upstream

\* The strategic regions mergeFiles goes through.
Merged_(records, badCount) == {i \in DOMAIN records : i >= badCount}

\* C21: a state or strategic region none of whose declared province ids
\* exists gets the zero region (box {0,0,0,0}, mass 0), with exactly one 'no
\* valid provinces' warning when it declared a province id and with none when
\* it declared no province id.
C21_NoValidMemberGivesTheZeroRegion ==
    /\ Output("strategicRegions") =>
           \A i \in Merged_(regionInput.strategicRegions, regionInput.badStrategicRegionsCount) :
               NoneResolves(regionInput.strategicRegions[i].provinces,
                            regionInput.provinceMap.provinces) =>
                   /\ ~regionOutput[1].throws
                   /\ i \in DOMAIN regionOutput[1].strategicRegions
                   /\ regionOutput[1].strategicRegions[i].region = ZeroRegion
                   /\ HowMany(regionOutput[1].warnings, "strategicregionnovalidprovinces", <<i>>)
                         = IF Len(regionInput.strategicRegions[i].provinces) > 0 THEN 1 ELSE 0
    /\ (/\ Output("states")
        /\ NoneResolves(regionInput.state.provinces, regionInput.provinceMap.provinces)) =>
               /\ ~regionOutput[1].throws
               /\ regionOutput[1].state.region = ZeroRegion
               /\ HowMany(regionOutput[1].warnings, "statenovalidprovinces", <<regionInput.state.id>>)
                     = IF Len(regionInput.state.provinces) > 0 THEN 1 ELSE 0

\* The box of the members of the list that exist upstream, the zero box
\* without any.
BoxOf(list, map) ==
    LET valid == SelectSeq(list, LAMBDA p : p \in DOMAIN map.provinces)
    IN  IF valid = <<>> THEN ZeroRegion.boundingBox
        ELSE MergeRegions([k \in DOMAIN valid |-> map.provinces[valid[k]]], map.width).boundingBox

\* C22: every declared province id that does not exist gets one dangling
\* reference warning naming the entity and the id (one per time it is
\* listed), and the box of the entity, and of every other entity of the
\* merge, is computed from the provinces that exist.
C22_DanglingChildIsWarnedAndLeftOut ==
    /\ Output("strategicRegions") =>
           /\ ~regionOutput[1].throws
           /\ \A i \in Merged_(regionInput.strategicRegions, regionInput.badStrategicRegionsCount) :
                  LET list == regionInput.strategicRegions[i].provinces
                  IN  /\ i \in DOMAIN regionOutput[1].strategicRegions
                      /\ regionOutput[1].strategicRegions[i].region.boundingBox
                            = BoxOf(list, regionInput.provinceMap)
                      /\ Cardinality({k \in DOMAIN regionOutput[1].warnings :
                                         /\ regionOutput[1].warnings[k].text
                                               = "provinceinstrategicregionnotexist"
                                         /\ regionOutput[1].warnings[k].source = <<i>>})
                            = Cardinality({k \in DOMAIN list :
                                             list[k] \notin DOMAIN regionInput.provinceMap.provinces})
    /\ Output("states") =>
           LET list == regionInput.state.provinces
           IN  /\ ~regionOutput[1].throws
               /\ regionOutput[1].state.region.boundingBox = BoxOf(list, regionInput.provinceMap)
               /\ \A p \in {list[k] : k \in DOMAIN list} \ DOMAIN regionInput.provinceMap.provinces :
                      Cardinality({k \in DOMAIN regionOutput[1].warnings :
                                      /\ regionOutput[1].warnings[k].text = "stateprovincenotexist"
                                      /\ regionOutput[1].warnings[k].args
                                            = <<p, regionInput.state.id>>})
                         = Cardinality({k \in DOMAIN list : list[k] = p})

\* C23: the merge of the supply areas and the merge of the strategic regions
\* return a result with warnings, whatever the records hold; they never throw.
C23_MergeNeverThrows ==
    (Output("supplyAreas") \/ Output("strategicRegions")) => ~regionOutput[1].throws

\* The members of `ids` reached from `start` over chains of adjacent members.
Reached(ids, start, Adjacent(_, _)) ==
    LET RECURSIVE Grow(_)
        Grow(S) == LET T == S \cup {m \in ids : \E r \in S : Adjacent(m, r) \/ Adjacent(r, m)}
                   IN  IF T = S THEN S ELSE Grow(T)
    IN  Grow({start})

\* C24: every call of checkStatesContiguous returns, and it returns undefined
\* exactly when every member state is reached from the first member over a
\* chain of adjacent member states; otherwise it returns a pair of the id of
\* a reached member and the id of a member that is not reached.
C24_ContiguousIsReachability ==
    Output("supplyAreas") =>
        \A c \in DOMAIN regionOutput[1].calls :
            LET call == regionOutput[1].calls[c]
                ids == {call.states[k] : k \in DOMAIN call.states}
                Adjacent(a, b) == StatesAreAdjacent(regionInput.states[a], regionInput.states[b],
                                                    regionInput.provinces)
                reached == IF call.states = <<>> THEN {} ELSE Reached(ids, call.states[1], Adjacent)
            IN  /\ ~call.result.throws
                /\ (call.result.value = None) <=> (reached = ids)
                /\ call.result.value # None =>
                       \E a \in reached, b \in ids \ reached :
                           call.result.value[1] \in {<<a, b>>, <<b, a>>}

\* Two states touch: an existing province of one and an existing province of
\* the other share an edge that is not impassable.
Touch(a, b) ==
    \E k \in DOMAIN regionInput.states[a].provinces, l \in DOMAIN regionInput.states[b].provinces :
        LET p == regionInput.states[a].provinces[k]
            q == regionInput.states[b].provinces[l]
        IN  /\ p \in DOMAIN regionInput.provinces
            /\ q \in DOMAIN regionInput.provinces
            /\ \E e \in DOMAIN regionInput.provinces[p].edges :
                   /\ regionInput.provinces[p].edges[e].to = q
                   /\ regionInput.provinces[p].edges[e].type # "impassable"

\* The existing states the supply area at index i lists.
MembersOf(i) ==
    {regionInput.supplyAreas[i].states[k] : k \in DOMAIN regionInput.supplyAreas[i].states}
        \cap DOMAIN regionInput.states

\* C25: in a merge result, a supply area has a 'statesnotcontiguous' warning
\* exactly when its existing member states are not all linked to the first of
\* them over edges that are not impassable: states linked only by impassable
\* edges get the warning, states connected over other edges get none.
C25_ImpassableEdgesDoNotConnect ==
    (Output("supplyAreas") /\ ~regionOutput[1].throws) =>
        \A i \in Merged_(regionInput.supplyAreas, regionInput.badSupplyAreasCount) :
            LET members == MembersOf(i)
                connected == \/ members = {}
                             \/ \E m \in members : Reached(members, m, Touch) = members
            IN  HowMany(regionOutput[1].warnings, "statesnotcontiguous", <<i>>)
                   = IF connected THEN 0 ELSE 1

\* A merge result with the warning for supply area 1, whose states 1 and 2 have
\* an impassable edge between them and nothing else.
C25_Witness ==
    /\ Output("supplyAreas") /\ ~regionOutput[1].throws
    /\ regionInput.supplyAreas[1].states = <<1, 2>>
    /\ \E e \in DOMAIN regionInput.provinces[1].edges :
           regionInput.provinces[1].edges[e] = [to |-> 2, type |-> "impassable"]
    /\ HowMany(regionOutput[1].warnings, "statesnotcontiguous", <<1>>) = 1

\* C28: in a merge result every existing state from 1 on that no supply area
\* lists has exactly one 'statenosupplyarea' warning and every listed state
\* has none; every existing province from 1 on that no strategic region lists
\* has exactly one 'provincenostrategicregion' warning and every listed
\* province has none.
C28_UnassignedChildrenAreWarned ==
    /\ (Output("supplyAreas") /\ ~regionOutput[1].throws) =>
           \A s \in DOMAIN regionInput.states :
               HowMany(regionOutput[1].warnings, "statenosupplyarea", <<s>>)
                  = IF \E i \in Merged_(regionInput.supplyAreas, regionInput.badSupplyAreasCount) :
                          s \in MembersOf(i)
                    THEN 0 ELSE 1
    /\ (Output("strategicRegions") /\ ~regionOutput[1].throws) =>
           \A p \in DOMAIN regionInput.provinceMap.provinces :
               HowMany(regionOutput[1].warnings, "provincenostrategicregion", <<p>>)
                  = IF \E i \in Merged_(regionInput.strategicRegions,
                                         regionInput.badStrategicRegionsCount) :
                          \E k \in DOMAIN regionInput.strategicRegions[i].provinces :
                              regionInput.strategicRegions[i].provinces[k] = p
                    THEN 0 ELSE 1

\* A merge result of the supply areas in which state 1 is in no supply area
\* and is warned about, while state 3 is in one.
C28_Witness ==
    /\ Output("supplyAreas") /\ ~regionOutput[1].throws
    /\ \A i \in DOMAIN regionInput.supplyAreas : 1 \notin MembersOf(i)
    /\ \E i \in DOMAIN regionInput.supplyAreas : 3 \in MembersOf(i)
    /\ HowMany(regionOutput[1].warnings, "statenosupplyarea", <<1>>) = 1
    /\ HowMany(regionOutput[1].warnings, "statenosupplyarea", <<3>>) = 0

\* C29: when reading a definition file or processing one of its definitions
\* raises, the file loader of the states, of the supply areas and of the
\* strategic regions gives no record for the file.
C29_RaisingFileGivesNoRecord ==
    (Output("file") /\ regionInput.raisedAt # None) =>
        /\ regionOutput[1].states.result = <<>>
        /\ regionOutput[1].supplyAreas.result = <<>>
        /\ regionOutput[1].strategicRegions.result = <<>>

\* The strategic region a province belongs to: the first one, in the order of
\* the merge, that lists it.
RegionOf(p) ==
    LET listing == {i \in Merged_(regionInput.strategicRegions,
                                  regionInput.badStrategicRegionsCount) :
                       \E k \in DOMAIN regionInput.strategicRegions[i].provinces :
                           regionInput.strategicRegions[i].provinces[k] = p}
    IN  CHOOSE i \in listing : \A j \in listing : i <= j

\* The existing provinces of state s that some strategic region lists.
AssignedOf(s) ==
    {p \in DOMAIN regionInput.provinceMap.provinces :
        /\ \E k \in DOMAIN regionInput.states[s].provinces : regionInput.states[s].provinces[k] = p
        /\ \E i \in Merged_(regionInput.strategicRegions, regionInput.badStrategicRegionsCount) :
               \E k \in DOMAIN regionInput.strategicRegions[i].provinces :
                   regionInput.strategicRegions[i].provinces[k] = p}

\* The warnings of the third loop about state s.
MinorityWarnings(s) ==
    {k \in DOMAIN regionOutput[1].warnings :
        /\ regionOutput[1].warnings[k].text = "provincesnotinsamestrategicregion"
        /\ regionOutput[1].warnings[k].args[1] = s}

\* C31: a state whose existing provinces are in more than one strategic
\* region gets exactly one warning, naming exactly its provinces outside the
\* strategic region that holds the most of them (on a tie the one with the
\* smallest id); a state whose assigned provinces are all in one strategic
\* region gets none.
C31_MinorityProvincesAreWarned ==
    (Output("strategicRegions") /\ ~regionOutput[1].throws) =>
        \A s \in DOMAIN regionInput.states :
            LET regions == {RegionOf(p) : p \in AssignedOf(s)}
                Held(r) == Cardinality({p \in AssignedOf(s) : RegionOf(p) = r})
                majority == CHOOSE r \in regions :
                                \A o \in regions \ {r} :
                                    Held(r) > Held(o) \/ (Held(r) = Held(o) /\ r < o)
            IN  IF Cardinality(regions) > 1
                THEN /\ Cardinality(MinorityWarnings(s)) = 1
                     /\ \A k \in MinorityWarnings(s) :
                            {regionOutput[1].warnings[k].args[2][j] :
                                j \in DOMAIN regionOutput[1].warnings[k].args[2]}
                               = {p \in AssignedOf(s) : RegionOf(p) # majority}
                ELSE MinorityWarnings(s) = {}

\* What the renderer shows of a snapshot: the fields the change messages
\* carry, the lists as their JSON images.
ViewOf(m) ==
    [warnings |-> JsonStringify(m.warnings), continents |-> JsonStringify(m.continents),
     terrains |-> JsonStringify(m.terrains),
     provinces |-> RendererList(m, "provinces"), states |-> RendererList(m, "states"),
     countries |-> RendererList(m, "countries")]

\* The renderer's data after the message e: a summary makes it take the
\* snapshot of the refresh that sent it, a wholesale message replaces a field,
\* a ranged message replaces a range of a list.
Receive(view, e) ==
    IF e.msg.command = "provincemapsummary" THEN ViewOf(worldMap[e.by][1])
    ELSE IF e.msg.command \in {"warnings", "continents", "terrains"}
    THEN [view EXCEPT ![e.msg.command] = e.msg.data]
    ELSE IF e.msg.command \in ListCommands
    THEN [view EXCEPT ![e.msg.command] = Apply(view[e.msg.command], e.msg)]
    ELSE view

\* The renderer's data after the messages msgs, starting from the base snapshot.
RendererView(msgs) ==
    LET RECURSIVE Go(_)
        Go(k) == IF k = 0 THEN ViewOf(BaseMap) ELSE Receive(Go(k - 1), msgs[k])
    IN  Go(Len(msgs))

\* The refreshes whose load returned.
Loaded == {r \in Refreshes : worldMap[r] # None}

\* C32: once all refreshes have completed, overlapping ones included, the
\* cached snapshot is the result of the load that started last and the
\* renderer's data equals it; and a diff starts being sent only while the
\* renderer holds the snapshot the diff was computed against.
C32_OverlappingRefreshesAgree ==
    /\ []((InFlight = {} /\ Loaded # {}) =>
             /\ \A r \in Loaded : (\A q \in Loaded : q <= r) => cachedWorldMap = worldMap[r]
             /\ RendererView(sent) = ViewOf(cachedWorldMap[1]))
    /\ [][\A r \in Refreshes :
             (diffResult[r] = None /\ diffResult'[r] # None /\ diffResult'[r][1].ok) =>
                 RendererView(sent) = ViewOf(oldCachedWorldMap[r][1])]_vars

\* Refresh r sent the new value of the field k of the snapshot: a ranged
\* message for every differing index of a list, one message for another field.
Carried(r, k) ==
    IF k \in ListCommands
    THEN \A i \in DOMAIN NewOf(r)[k] \cup DOMAIN OldOf(r)[k] :
             Differs(r, k, i) =>
                 \E j \in DOMAIN sent :
                     /\ sent[j].by = r /\ sent[j].msg.command = k
                     /\ i \in sent[j].msg.start..(sent[j].msg.end - 1)
                     /\ sent[j].msg.data[i - sent[j].msg.start + 1]
                           = (IF Get(NewOf(r)[k], i) = Undefined THEN Null ELSE Get(NewOf(r)[k], i))
    ELSE \E j \in DOMAIN sent :
             /\ sent[j].by = r /\ sent[j].msg.command = k
             /\ k \in {"warnings", "continents", "terrains"} =>
                    sent[j].msg.data = JsonStringify(NewOf(r)[k])

\* C33: a plain refresh answered with a diff has sent, in its change
\* messages, every part of the new snapshot that differs from the previous
\* one, the strategic regions, the supply areas and every other field
\* included; a plain refresh not answered with a diff has sent the full
\* snapshot.
C33_DiffCarriesEveryChange ==
    \A r \in Refreshes :
        (pc[r] = "done" /\ Diffing(r) /\ outcome[r] \in {"diff", "full"}) =>
            IF outcome[r] = "diff"
            THEN \A k \in DOMAIN NewOf(r) : OldOf(r)[k] # NewOf(r)[k] => Carried(r, k)
            ELSE \E j \in DOMAIN sent : sent[j] = Post(r, SummaryMessage(NewOf(r)))

\* The snapshot refresh r loaded equals the one it diffs against in the seven
\* scalars, the three wholesale fields and every item of the three lists.
NothingToSend(r) ==
    /\ Diffing(r)
    /\ \A k \in ScalarKeys \cup {"warnings", "continents", "terrains"} : OldOf(r)[k] = NewOf(r)[k]
    /\ \A cmd \in ListCommands :
          \A i \in ListStart(NewOf(r), cmd)..(ListEnd(NewOf(r), cmd) - 1) : ~Differs(r, cmd, i)

C35_NoRecordIsLostByAMerge ==
    [][Merges =>
          LET input == lastLoad'.input
              states == returned'[Len(returned')].result.states
              Id(k) == heap'[input[k].o].id
          IN  /\ \A k \in DOMAIN input :
                    {i \in DOMAIN states : states[i] = input[k].o} = {Id(k)}
              /\ \A k, l \in DOMAIN input : k # l => Id(k) # Id(l)]_vars

\* The list without the repetitions of its members.
FirstOccurrences(list) ==
    LET RECURSIVE Go(_)
        Go(k) == IF k = 0 THEN <<>>
                 ELSE IF \E j \in 1..(k - 1) : list[j] = list[k] THEN Go(k - 1)
                 ELSE Append(Go(k - 1), list[k])
    IN  Go(Len(list))

\* The multi-parent warnings that name the same parent twice.
SelfClaims(warnings, text) ==
    {k \in DOMAIN warnings : warnings[k].text = text /\ warnings[k].source[1] = warnings[k].source[2]}

\* C36: a multi-parent warning names two distinct parents: a state that lists
\* a province twice, or a supply area that lists a state twice, gets no
\* 'exists in multiple ...' warning, and the contiguity check of a supply
\* area gives what it gives for the list without the repetitions.
C36_RepeatedIdIsNoSecondParent ==
    /\ Output("states") =>
           SelfClaims(regionOutput[1].warnings, "provinceinmultistates") = {}
    /\ Output("supplyAreas") =>
           /\ SelfClaims(regionOutput[1].warnings, "stateinmultiplesupplyareas") = {}
           /\ \A c \in DOMAIN regionOutput[1].calls :
                  LET call == regionOutput[1].calls[c]
                      once == FirstOccurrences(call.states)
                  IN  call.result = CheckStatesContiguous([k \in DOMAIN once |->
                                                              regionInput.states[once[k]]],
                                                          regionInput.provinces)

\* What checkStatesContiguous says of a list of states.
Verdict(result) ==
    IF result.throws THEN "throws" ELSE IF result.value = None THEN "contiguous" ELSE "apart"

\* The lists with the members of `list` in another order.
Reorderings(list) ==
    {[k \in DOMAIN list |-> list[f[k]]] :
        f \in {g \in [DOMAIN list -> DOMAIN list] : \A i, j \in DOMAIN list : g[i] = g[j] => i = j}}

\* C37: the verdict of the contiguity check is the same for every order of the
\* member states, whichever member comes first, over every set of edges,
\* edges held by only one of their two provinces included.
C37_VerdictIgnoresTheOrder ==
    Output("contiguity") =>
        \A other \in Reorderings(regionInput.list) :
            Verdict(CheckStatesContiguous([k \in DOMAIN other |-> regionInput.states[other[k]]],
                                          regionInput.provinces))
               = Verdict(regionOutput[1])

\* ------------------------------------------------------------------------
\* Properties of a merge among the loads of its upstream loaders
\* ------------------------------------------------------------------------

\* C38: while a loader of supply areas or strategic regions merges, the
\* province map it holds is read from the same save of the province files as
\* the one the states it holds were computed from.
C38_OneProvinceSnapshotPerMerge ==
    \A l \in Mergers :
        mergePc[l] = "merging" => mergeHeld[l].provinceMap = mergeHeld[l].stateMap

\* ------------------------------------------------------------------------
\* Properties of the preview manager
\* ------------------------------------------------------------------------

\* The panel of the preview the registry holds for the key.
PanelOf(key) == previews[key][1].panel

\* The panels in which the manager has shown a preview of the key and which
\* are not disposed.
LivePreviewsOf(key) ==
    {p \in DOMAIN panels : /\ panels[p].shown
                           /\ panels[p].onDidDispose = Some(key)
                           /\ ~panels[p].disposed}

\* A key is in the registry exactly while its preview's panel is not disposed,
\* and no key has two previews.
RegistryIsTheLivePreviews ==
    \A key \in Uris :
        /\ previews[key] # None => ~panels[PanelOf(key)].disposed
        /\ LivePreviewsOf(key) = IF previews[key] = None THEN {} ELSE {PanelOf(key)}

\* Showing a preview for a key that has one reveals its panel, creates no
\* panel and leaves the registry as it is; a panel passed in is disposed.
ShowOfARegisteredKeyReveals ==
    /\ \A uri \in Uris :
           (ShowPreview(uri) /\ uri \in textDocuments /\ previews[uri] # None)
               => /\ previews' = previews
                  /\ Len(panels') = Len(panels)
                  /\ panels'[PanelOf(uri)].revealed
    /\ \A p \in DOMAIN panels :
           (/\ OpenTextDocumentReturns(p, TRUE)
            /\ panels[p].restoring # None
            /\ previews[panels[p].restoring[1]] # None)
               => /\ previews' = previews
                  /\ panels'[p].disposed
                  /\ panels'[PanelOf(panels[p].restoring[1])].revealed

\* Disposing the panel of a preview, directly or by closing its document,
\* takes the key out of the registry, and a show of a key that is not in the
\* registry creates a new preview in a new panel.
DisposalRemovesAndShowCreates ==
    /\ \A uri \in Uris :
           (previews[uri] # None /\ (ClosePanel(PanelOf(uri)) \/ OnCloseTextDocument(uri)))
               => previews'[uri] = None
    /\ \A uri \in Uris :
           (/\ ShowPreview(uri)
            /\ uri \in textDocuments
            /\ FindPreviewProvider(uri) # None
            /\ previews[uri] = None)
               => /\ previews'[uri] # None
                  /\ previews'[uri][1].panel = Len(panels) + 1
                  /\ ~panels'[Len(panels) + 1].disposed

\* C39: the registry holds at most one preview per uri, and a uri is in it
\* exactly while its preview's panel is not disposed: a show of a uri that
\* has a preview reveals the panel and disposes a panel passed in, disposing
\* a panel or closing the document removes the entry, and a later show
\* creates a new preview.
C39_RegistryHoldsTheLivePreviews ==
    /\ [](RegistryIsTheLivePreviews)
    /\ [][ShowOfARegisteredKeyReveals /\ DisposalRemovesAndShowCreates]_vars

\* C40: previewProvider.update is never called with a panel that is disposed
\* at the time of the call, whenever the document changed before the disposal.
C40_NoUpdateOfADisposedPanel ==
    \A i \in DOMAIN updateCalls : ~updateCalls[i].disposed

\* The records reachable from the results load has returned so far.
ReturnedRecords ==
    UNION {{returned[k].result.states[i] : i \in DOMAIN returned[k].result.states} :
             k \in DOMAIN returned}

\* C5: no step of the loader changes a record reachable from a result that load
\* has returned before: its id, its provinces and its region stay what they
\* were when the result was returned.
C5_LoadNeverMutatesSnapshot ==
    [][\A o \in ReturnedRecords : heap'[o] = heap[o]]_vars

====
